---- MODULE Spec2Model ----
(***************************************************************************)
(* Falkor: the chained request/response test-case engine.                  *)
(*                                                                         *)
(* The model follows lib/testcase.js in its promise based form (the last   *)
(* TestCase of src/lib/falkor.js): done() starts _run(), _run() sends the  *)
(* request and hands out the promise of a deferred, the response is        *)
(* buffered until 'end', _finalize() builds one promise chain out of the   *)
(* evaluators and the then() continuations, and the deferred is settled    *)
(* when that chain settles.  Every handler of the promise chain runs in a *)
(* turn of its own, so every handler is one action.                        *)
(***************************************************************************)
EXTENDS Integers, Sequences, FiniteSets, TLC

\* ------------------------------------------------------------------ bounds
\* Specification Spec.  Test cases that exist in one behaviour: the outermost
\* one and the ones returned by continuations.
NumCases == 2
\* Evaluators registered on the outermost test case.
MaxEvals == 2
\* Continuations registered with then() on the outermost test case.
MaxChain == 2
\* Evaluators and continuations of a test case built inside a continuation.
MaxNestedEvals == 1
MaxNestedChain == 1
\* Characters of body text received for one response.
MaxBody == 1
\* Distinct network errors.
NumErrors == 2
NumStatuses == 1

\* Specification SpecDeep: one more test case, so that nested test cases
\* nest and follow each other; responses carry no body text.
DeepCases == 3
DeepEvals == 1
DeepChain == 2
DeepNestedEvals == 1
DeepNestedChain == 1
DeepBody == 0
DeepErrors == 1
DeepStatuses == 1

\* Specification SpecTimeout: runs with a timeout, a configured duration of
\* up to MaxTimeoutMs milliseconds.
TimeoutCases == 2
TimeoutEvals == 1
TimeoutChain == 1
TimeoutNestedEvals == 1
TimeoutNestedChain == 0
TimeoutBody == 1
TimeoutErrors == 1
TimeoutStatuses == 2
MaxTimeoutMs == 2

Bounds ==
  [cases |-> NumCases, evals |-> MaxEvals, chain |-> MaxChain,
   nestedEvals |-> MaxNestedEvals, nestedChain |-> MaxNestedChain,
   body |-> MaxBody, errors |-> NumErrors, statuses |-> NumStatuses]

DeepBounds ==
  [cases |-> DeepCases, evals |-> DeepEvals, chain |-> DeepChain,
   nestedEvals |-> DeepNestedEvals, nestedChain |-> DeepNestedChain,
   body |-> DeepBody, errors |-> DeepErrors,
   statuses |-> DeepStatuses]

TimeoutBounds ==
  [cases |-> TimeoutCases, evals |-> TimeoutEvals, chain |-> TimeoutChain,
   nestedEvals |-> TimeoutNestedEvals, nestedChain |-> TimeoutNestedChain,
   body |-> TimeoutBody, errors |-> TimeoutErrors,
   statuses |-> TimeoutStatuses]

\* this._url, one distinct url per constructed test case.
Urls == <<"/one", "/two", "/three", "/four", "/five", "/six">>

Cases == 1 .. Len(Urls)

VARIABLES
  ncases,   \* number of TestCase objects constructed so far
  tc,       \* tc[c]: the fields of TestCase c and the state of its request
  raised,   \* errors thrown synchronously to the caller of done()/fn()
  trace     \* what happened, in order: evaluator and continuation calls,
            \* and the calls on the asserter (fail, done)

\* The state outside the engine of a running test case: the option sets being
\* configured, the process-wide settings and the asserter adapter.
VARIABLES
  options,  \* options[o]: the fields of Options object o (TestCase, TestTemplate)
  heap,     \* the objects and arrays the fields of options refer to
  config,   \* the process-wide settings of globalconfig
  sent,     \* the requests run() has issued, in order
  adapter   \* the Asserter the runner hands to a test case

outside == <<options, heap, config, sent, adapter>>

vars == <<ncases, tc, raised, trace, outside>>

\* ------------------------------------------------------------------ values
\* The response object of test case c (res); its body is tc[c].body.
Res(c) == [t |-> "response", n |-> c, k |-> 0]
Undefined == [t |-> "undefined", n |-> 0, k |-> 0]
\* The plain value continuation k of test case c returns: user functions are
\* arbitrary, so each one produces a value of its own.
Returned(c, k) == [t |-> "returned", n |-> c, k |-> k]
\* The value the promise returned by continuation k of c is resolved with.
Resolved(c, k) == [t |-> "resolved", n |-> c, k |-> k]
\* new Error(...) thrown by continuation k of c, and by evaluator k of c.
Thrown(c, k) == [t |-> "Error", n |-> c, k |-> k]
ThrownByEvaluator(c, k) == [t |-> "evaluator Error", n |-> c, k |-> k]
\* The reason the promise returned by continuation k of c is rejected with.
Rejection(c, k) == [t |-> "rejection", n |-> c, k |-> k]
\* new Error('Timed out after ' + ms + ' ms'), the reason promise.timeout(ms)
\* rejects with.
TimedOut(ms) == [t |-> "Timed out after <ms> ms", n |-> ms, k |-> 0]

\* e.message of a network level error; the first n of them.
ErrMessages == <<"ECONNREFUSED", "ENOTFOUND", "ETIMEDOUT", "EPIPE">>
Errors(n) == {ErrMessages[i] : i \in 1 .. n}

\* res.statusCode of a response; the first n of them.
ResponseCodes == <<200, 500, 404, 302>>
StatusCodes(n) == {ResponseCodes[i] : i \in 1 .. n}

\* A chunk of body text: the empty string or one character.
Chunks == {<<>>, <<"a">>}

NoAsserter == "none"
\* The asserter objects a caller may bind.
Asserters == {"test"}

\* Q.defer(): a deferred is pending until the first resolve/reject.
Pending == [st |-> "pending", val |-> Undefined]

\* deferred.resolve(v) / deferred.reject(v): only the first settlement counts.
Settle(d, st, v) == IF d.st = "pending" THEN [st |-> st, val |-> v] ELSE d

\* The promise chain _finalize() has not been built yet.
NoChain ==
  [st |-> "none", dump |-> FALSE, evs |-> <<>>, conts |-> <<>>, i |-> 0,
   val |-> Undefined, wait |-> "none", sub |-> 0]

\* A continuation registered by the user, named by its place of registration.
UserFn(k) == [kind |-> "user", id |-> k, target |-> 0]
\* The resolve function of the deferred with which Q assimilates a
\* thenable returned by a continuation of test case p.
ResolveFn(p) == [kind |-> "resolve", id |-> 0, target |-> p]

\* function TestCase(url): the fields set by the constructors of Options and
\* TestCase, and the state of the request this test case will make.
TestCase(u) ==
  [url |-> u,
   asserter |-> NoAsserter,
   dump |-> FALSE,               \* this._dump
   evaluators |-> <<>>,          \* this._evaluators
   chained |-> <<>>,             \* this._chained
   req |-> "unsent",             \* unsent, sent, receiving, ended, failed
   error |-> "",                 \* e.message of the 'error' event emitted
   statusCode |-> 0,             \* res.statusCode (0: no response yet)
   data |-> <<>>,                \* var data in _handleHttpResponse
   body |-> <<>>,                \* res.body (<<>>: not set)
   defer |-> Pending,            \* var defer in _run
   timeoutMs |-> 0,              \* this._timeoutMs (0: not set)
   timedOut |-> FALSE,           \* the timer of promise.timeout has fired
   fin |-> NoChain,              \* the promise chain of _finalize
   done |-> "no"]                \* done(): no, pending, failed, called

Init ==
  /\ ncases = 1
  /\ tc = [c \in Cases |-> TestCase(Urls[c])]
  /\ raised = <<>>
  /\ trace = <<>>
  /\ options = <<>>
  /\ heap = [headers |-> <<>>, cookies |-> <<>>, evaluators |-> <<>>,
             schema |-> <<>>, fns |-> <<>>]
  /\ config = [baseUrl |-> [protocol |-> "", hostname |-> "", port |-> 0,
                            rooted |-> FALSE, segs |-> <<>>],
               rootSchemaPath |-> [rooted |-> FALSE, segs |-> <<>>]]
  /\ sent = <<>>
  /\ adapter = <<>>

Created(c) == c \in 1 .. ncases

\* The user configures the outermost test case, up to the end of its
\* response: what is registered later is read by no code of that run.
Configurable(c) == c = 1 /\ tc[c].req \in {"unsent", "sent", "receiving"}

\* The promise _run() returned for test case c, in the table t: the promise
\* of var defer, or promise.timeout(this._timeoutMs) of it, rejected when its
\* timer fired before the deferred was settled.
RunPromise(t, c) ==
  IF t[c].timedOut
    THEN [st |-> "rejected", val |-> TimedOut(t[c].timeoutMs)]
    ELSE t[c].defer

\* ------------------------------------------------------------------- turns
\* Q runs the handlers of settled promises in turns queued with
\* process.nextTick, and node runs those before it delivers the next network
\* event or timer: a handler that is ready runs before any event arrives.
TurnReady(c) ==
  \/ tc[c].fin.st \in {"running", "failing"}
  \/ /\ tc[c].fin.st = "waiting" /\ tc[c].fin.wait = "testcase"
     /\ RunPromise(tc, tc[c].fin.sub).st # "pending"
  \/ tc[c].done = "pending" /\ RunPromise(tc, c).st # "pending"
  \/ tc[c].done = "failed"

\* No handler is ready: node waits for the next event.
Quiet == \A c \in 1 .. ncases : ~TurnReady(c)

\* ---------------------------------------------------------------- builders
\* TestCase.prototype.setAsserter
setAsserter(c, a) ==
  /\ Quiet /\ Created(c) /\ c = 1
  /\ tc[c].req = "unsent" /\ tc[c].asserter = NoAsserter
  /\ tc' = [tc EXCEPT ![c].asserter = a]
  /\ UNCHANGED <<ncases, raised, trace, outside>>

\* Options.prototype.evaluate: this._evaluators.push(fn)
evaluate(c, max) ==
  /\ Quiet /\ Created(c) /\ Configurable(c)
  /\ Len(tc[c].evaluators) < max
  /\ tc' = [tc EXCEPT ![c].evaluators = Append(@, Len(@) + 1)]
  /\ UNCHANGED <<ncases, raised, trace, outside>>

\* TestCase.prototype.then: this._chained.push(fn)
then(c, max) ==
  /\ Quiet /\ Created(c) /\ Configurable(c)
  /\ Len(tc[c].chained) < max
  /\ tc' = [tc EXCEPT ![c].chained = Append(@, UserFn(Len(@) + 1))]
  /\ UNCHANGED <<ncases, raised, trace, outside>>

\* TestCase.prototype.dump: this._dump = true
dump(c) ==
  /\ Quiet /\ Created(c) /\ Configurable(c)
  /\ ~tc[c].dump
  /\ tc' = [tc EXCEPT ![c].dump = TRUE]
  /\ UNCHANGED <<ncases, raised, trace, outside>>

\* ------------------------------------------------------------------- start
\* TestCase.prototype._run on the table t of test cases: the request of c is
\* sent and var defer is a fresh deferred.  (The caller has checked the
\* asserter.)
_run(t, c) == [t EXCEPT ![c].req = "sent", ![c].defer = Pending]

\* Variant of done() that starts _run() before it looks at the asserter.
doneRunsFirst(c) ==
  /\ Quiet /\ Created(c) /\ c = 1
  /\ tc[c].req = "unsent" /\ tc[c].done = "no"
  /\ raised = <<>>
  /\ IF tc[c].asserter = NoAsserter
       THEN /\ raised' = Append(raised, "Missing asserter")
            /\ tc' = _run(tc, c)
       ELSE /\ tc' = [_run(tc, c) EXCEPT ![c].done = "pending"]
            /\ UNCHANGED <<raised, outside>>
  /\ UNCHANGED <<ncases, trace, outside>>

\* TestCase.prototype.done: throws without an asserter; otherwise starts
\* _run() and hangs the fail and fin handlers on its promise.
done(c) ==
  /\ Quiet /\ Created(c) /\ c = 1
  /\ tc[c].req = "unsent" /\ tc[c].done = "no"
  /\ raised = <<>>
  /\ IF tc[c].asserter = NoAsserter
       THEN /\ raised' = Append(raised, "Missing asserter")
            /\ UNCHANGED <<tc, outside>>
       ELSE /\ tc' = [_run(tc, c) EXCEPT ![c].done = "pending"]
            /\ UNCHANGED <<raised, outside>>
  /\ UNCHANGED <<ncases, trace, outside>>

\* var fn = function (test) of toNodeUnitFn, the callable adapter of c:
\* setAsserter(test), then done(), which throws when test is no asserter.
fn(c, a) ==
  /\ Quiet /\ Created(c) /\ c = 1
  /\ tc[c].req = "unsent" /\ tc[c].done = "no"
  /\ raised = <<>>
  /\ IF a = NoAsserter
       THEN /\ raised' = Append(raised, "Missing asserter")
            /\ tc' = [tc EXCEPT ![c].asserter = a]
       ELSE /\ tc' = [_run([tc EXCEPT ![c].asserter = a], c)
                       EXCEPT ![c].done = "pending"]
            /\ UNCHANGED <<raised, outside>>
  /\ UNCHANGED <<ncases, trace, outside>>

\* ----------------------------------------------------------------- network
\* Variant of the message that leaves e.message out.
RequestFailedWithoutMessage(u, m) ==
  [t |-> "Request for <url> failed. <message>", url |-> u, msg |-> ""]

\* 'Request for ' + this._url + ' failed. ' + e.message
RequestFailed(u, m) == [t |-> "Request for <url> failed. <message>", url |-> u, msg |-> m]

\* TestCase.prototype._handleHttpResponse: the response callback; data = ''.
handleHttpResponse(c, statusCode) ==
  /\ Quiet /\ Created(c)
  /\ tc[c].req = "sent"
  /\ tc' = [tc EXCEPT ![c].req = "receiving", ![c].data = <<>>,
                      ![c].statusCode = statusCode]
  /\ UNCHANGED <<ncases, raised, trace, outside>>

\* A 'data' handler that puts the chunk in front of what it has.
onDataPrepends(c, d, max) ==
  /\ Quiet /\ Created(c)
  /\ tc[c].req = "receiving"
  /\ Len(tc[c].data) + Len(d) <= max
  /\ tc' = [tc EXCEPT ![c].data = d \o @]
  /\ UNCHANGED <<ncases, raised, trace, outside>>

\* res.on('data', function (d) { data += d })
onData(c, d, max) ==
  /\ Quiet /\ Created(c)
  /\ tc[c].req = "receiving"
  /\ Len(tc[c].data) + Len(d) <= max
  /\ tc' = [tc EXCEPT ![c].data = @ \o d]
  /\ UNCHANGED <<ncases, raised, trace, outside>>

\* Variant of _finalize that chains the evaluators last registered first.
_finalizeReversed(t, c) ==
  [t EXCEPT ![c].fin =
     [st |-> "running", dump |-> t[c].dump,
      evs |-> [x \in 1 .. Len(t[c].evaluators) |->
                 t[c].evaluators[Len(t[c].evaluators) + 1 - x]],
      conts |-> t[c].chained,
      i |-> 0, val |-> Res(c), wait |-> "none", sub |-> 0]]

\* Variant of _finalize with an evaluator of its own, number 0, ahead of the
\* registered ones when the status code is not 200.
_finalizeExpectsOk(t, c) ==
  [t EXCEPT ![c].fin =
     [st |-> "running", dump |-> t[c].dump,
      evs |-> (IF t[c].statusCode # 200 THEN <<0>> ELSE <<>>) \o t[c].evaluators,
      conts |-> t[c].chained,
      i |-> 0, val |-> Res(c), wait |-> "none", sub |-> 0]]

\* TestCase.prototype._finalize: the promise chain Q(res).then(E1)...then(En)
\* .then(C1)...then(Cm) over the evaluators and continuations registered now,
\* with the handler that dumps ahead of them if this._dump.
_finalize(t, c) ==
  [t EXCEPT ![c].fin =
     [st |-> "running", dump |-> t[c].dump, evs |-> t[c].evaluators,
      conts |-> t[c].chained,
      i |-> 0, val |-> Res(c), wait |-> "none", sub |-> 0]]

\* res.on('end', ...): if (data) res.body = data; this._finalize(defer, res)
onEnd(c) ==
  /\ Quiet /\ Created(c)
  /\ tc[c].req = "receiving"
  /\ tc' = _finalize([tc EXCEPT ![c].req = "ended",
                                ![c].body = tc[c].data], c)
  /\ UNCHANGED <<ncases, raised, trace, outside>>

\* Variant of _handleHttpError as the callback version of the test case had
\* it (lib/testcase.js): this._asserter.fail(message); this._asserter.done(),
\* with the deferred left alone.
handleHttpErrorLegacy(c, e) ==
  /\ Quiet /\ Created(c)
  /\ tc[c].req \in {"sent", "receiving"} /\ tc[c].error = ""
  /\ tc' = [tc EXCEPT
        ![c].req = IF @ = "sent" THEN "failed" ELSE @,
        ![c].error = e]
  /\ trace' = trace \o
        <<[ev |-> "fail", tc |-> c, arg |-> RequestFailed(tc[c].url, e),
           on |-> tc[c].asserter],
          [ev |-> "done", tc |-> c, on |-> tc[c].asserter]>>
  /\ UNCHANGED <<ncases, raised, outside>>

\* TestCase.prototype._handleHttpError: defer.reject(message).  A request
\* that fails before its response is dead; an 'error' may also come while
\* the body is received (the socket closes early), and node then still
\* ends the response.  A request emits 'error' once.
handleHttpError(c, e) ==
  /\ Quiet /\ Created(c)
  /\ tc[c].req \in {"sent", "receiving"} /\ tc[c].error = ""
  /\ tc' = [tc EXCEPT
        ![c].req = IF @ = "sent" THEN "failed" ELSE @,
        ![c].error = e,
        ![c].defer = Settle(@, "rejected", RequestFailed(tc[c].url, e))]
  /\ UNCHANGED <<ncases, raised, trace, outside>>

\* ------------------------------------------------------- the promise chain
\* re.test(res.body) without the guard: an undefined body is tested as the
\* string 'undefined'.
BodyTextUnguarded(body) ==
  IF body = <<>> THEN <<"u", "n", "d", "e", "f", "i", "n", "e", "d">> ELSE body

\* res.body ? res.body.toString('utf8') : '', the text the evaluators of
\* expectBodyMatches and expectBodyDoesNotMatch test; body is <<>> when
\* res.body is not set.
BodyText(body) == IF body # <<>> THEN body ELSE <<>>

\* What one call of an evaluator can do: pass all its assertions, record a
\* failed assertion on the asserter, or throw.
EvalOutcomes == {"pass", "fail", "throw"}

\* The chain of c is about to run the handler of step number i + 1.
Running(c) == Created(c) /\ tc[c].fin.st = "running" /\ ~tc[c].fin.dump

\* promise.then(function (res) { self._dumpInfo(res); return res }): the
\* first handler of the chain when this._dump.
dumpStep(c) ==
  /\ Created(c) /\ tc[c].fin.st = "running" /\ tc[c].fin.dump
  /\ trace' = Append(trace, [ev |-> "dump", tc |-> c, on |-> "console"])
  /\ tc' = [tc EXCEPT ![c].fin.dump = FALSE]
  /\ UNCHANGED <<ncases, raised, outside>>

\* Variant of the evaluator handler in which a failed assertion rejects the
\* chain as a throw does.
evaluatorStepShortCircuit(c) ==
  /\ Running(c)
  /\ tc[c].fin.i < Len(tc[c].fin.evs)
  /\ LET id == tc[c].fin.evs[tc[c].fin.i + 1] IN
     \E out \in EvalOutcomes :
       /\ trace' = Append(trace,
            [ev |-> "evaluator", tc |-> c, id |-> id, out |-> out,
             on |-> tc[c].asserter, body |-> tc[c].body,
             text |-> BodyText(tc[c].body)])
       /\ tc' = IF out # "pass"
                  THEN [tc EXCEPT ![c].fin.st = "failing",
                                  ![c].fin.val = ThrownByEvaluator(c, id)]
                  ELSE [tc EXCEPT ![c].fin.i = @ + 1,
                                  ![c].fin.val = Res(c)]
  /\ UNCHANGED <<ncases, raised, outside>>

\* promise.then(function (evaluator) { evaluator.call(this, this._asserter,
\* res); return res }): the handler of evaluator number i + 1.
evaluatorStep(c) ==
  /\ Running(c)
  /\ tc[c].fin.i < Len(tc[c].fin.evs)
  /\ LET id == tc[c].fin.evs[tc[c].fin.i + 1] IN
     \E out \in EvalOutcomes :
       /\ trace' = Append(trace,
            [ev |-> "evaluator", tc |-> c, id |-> id, out |-> out,
             on |-> tc[c].asserter, body |-> tc[c].body,
             text |-> BodyText(tc[c].body)])
       /\ tc' = IF out = "throw"
                  THEN [tc EXCEPT ![c].fin.st = "failing",
                                  ![c].fin.val = ThrownByEvaluator(c, id)]
                  ELSE [tc EXCEPT ![c].fin.i = @ + 1,
                                  ![c].fin.val = Res(c)]
  /\ UNCHANGED <<ncases, raised, outside>>

\* new TestCase(url) configured inside a continuation: ne evaluators and nc
\* continuations.
NestedCase(u, ne, nc) ==
  [TestCase(u) EXCEPT
     !.evaluators = [x \in 1 .. ne |-> x],
     !.chained = [x \in 1 .. nc |-> UserFn(x)]]

\* Variant that runs the nested test case and drops the promise of _run():
\* the chain of p goes on at once, with undefined.
RunNestedInstanceNoWait(t, p, j) ==
  [_run([t EXCEPT ![j].asserter = t[p].asserter], j) EXCEPT
     ![p].fin.i = @ + 1, ![p].fin.val = Undefined]

\* Variant that runs the nested test case with done() instead of _run(): the
\* nested test case hangs its own fail and fin handlers on its promise.
RunNestedInstanceDone(t, p, j) ==
  [_run([t EXCEPT ![j].asserter = t[p].asserter], j) EXCEPT
     ![j].done = "pending",
     ![p].fin.st = "waiting", ![p].fin.wait = "testcase", ![p].fin.sub = j]

\* result.setAsserter(this._asserter); return result._run() for a TestCase
\* instance: the chain of p waits for the promise of the nested deferred.
RunNestedInstance(t, p, j) ==
  [_run([t EXCEPT ![j].asserter = t[p].asserter], j) EXCEPT
     ![p].fin.st = "waiting", ![p].fin.wait = "testcase", ![p].fin.sub = j]

\* The same two calls on the callable adapter: fn._run() runs the test case
\* and returns fn, and Q assimilates fn, a thenable, by fn.then(resolve,
\* reject), which is this._chained.push(resolve) on the nested test case.
\* The turn of that call comes before any event of the nested request.
RunNestedFn(t, p, j) ==
  [_run([t EXCEPT ![j].asserter = t[p].asserter], j) EXCEPT
     ![j].chained = Append(@, ResolveFn(p)),
     ![p].fin.st = "waiting", ![p].fin.wait = "thenable", ![p].fin.sub = j]

\* if (result && (result instanceof TestCase || result.isTestCaseNodeUnitFn))
RunNested(t, p, j, f) ==
  IF f = "fn" THEN RunNestedFn(t, p, j) ELSE RunNestedInstance(t, p, j)

\* deferred.resolve(v) of the deferred assimilating nested test case j of p.
ResolveThenable(t, p, j, v) ==
  IF t[p].fin.st = "waiting" /\ t[p].fin.wait = "thenable" /\ t[p].fin.sub = j
    THEN [t EXCEPT ![p].fin.st = "running", ![p].fin.i = @ + 1,
                   ![p].fin.val = v, ![p].fin.wait = "none"]
    ELSE t

\* The place in this._chained of the continuation the chain of c runs next
\* (or waits for).
ChainPos(c) == tc[c].fin.i - Len(tc[c].fin.evs) + 1

\* this._chained[i] of the promise chain, at that place.
Chained(c) == tc[c].fin.conts[ChainPos(c)]

AtContinuation(c) ==
  /\ Running(c)
  /\ tc[c].fin.i >= Len(tc[c].fin.evs)
  /\ ChainPos(c) <= Len(tc[c].fin.conts)

ThenEvent(c, out, ret, sub) ==
  [ev |-> "then", tc |-> c, pos |-> ChainPos(c), id |-> Chained(c).id,
   arg |-> tc[c].fin.val, out |-> out, ret |-> ret, sub |-> sub]

\* Variant of the handler below that drops the value the continuation
\* returned: the next step gets the value this one got.
chainedValueKeepsArgument(c) ==
  /\ AtContinuation(c)
  /\ Chained(c).kind = "user"
  /\ LET v == Returned(c, Chained(c).id) IN
       /\ trace' = Append(trace, ThenEvent(c, "value", v, 0))
       /\ tc' = [tc EXCEPT ![c].fin.i = @ + 1]
  /\ UNCHANGED <<ncases, raised, outside>>

\* promise.then(function (chain, value) { var result = chain.call(this,
\* value) ... }) for a continuation that returns a value that is neither a
\* test case nor a promise: it is the value of the next step.
chainedValue(c) ==
  /\ AtContinuation(c)
  /\ Chained(c).kind = "user"
  /\ LET v == Returned(c, Chained(c).id) IN
       /\ trace' = Append(trace, ThenEvent(c, "value", v, 0))
       /\ tc' = [tc EXCEPT ![c].fin.i = @ + 1, ![c].fin.val = v]
  /\ UNCHANGED <<ncases, raised, outside>>

\* ... for a continuation that returns a promise (Q.delay, Q.reject, ...):
\* the chain waits until that promise settles.
chainedDeferred(c) ==
  /\ AtContinuation(c)
  /\ Chained(c).kind = "user"
  /\ trace' = Append(trace, ThenEvent(c, "deferred", Undefined, 0))
  /\ tc' = [tc EXCEPT ![c].fin.st = "waiting", ![c].fin.wait = "deferred"]
  /\ UNCHANGED <<ncases, raised, outside>>

\* ... for a continuation that throws: the chain is rejected.
chainedThrow(c) ==
  /\ AtContinuation(c)
  /\ Chained(c).kind = "user"
  /\ trace' = Append(trace, ThenEvent(c, "throw", Undefined, 0))
  /\ tc' = [tc EXCEPT ![c].fin.st = "failing",
                      ![c].fin.val = Thrown(c, Chained(c).id)]
  /\ UNCHANGED <<ncases, raised, outside>>

\* ... for a continuation that returns a test case (f = "instance") or the
\* callable adapter of one (f = "fn"), built and configured in the call.
chainedTestCase(c, f, ne, nc, max) ==
  /\ AtContinuation(c)
  /\ Chained(c).kind = "user"
  /\ ncases < max
  /\ LET j == ncases + 1 IN
       /\ ncases' = j
       /\ trace' = Append(trace, ThenEvent(c, f, Undefined, j))
       /\ tc' = RunNested([tc EXCEPT ![j] = NestedCase(Urls[j], ne, nc)], c, j, f)
  /\ UNCHANGED <<raised, outside>>

\* ... for the resolve function Q pushed with fn.then(resolve, reject): it
\* resolves the deferred the outer chain waits for and returns undefined.
chainedResolve(c) ==
  /\ AtContinuation(c)
  /\ Chained(c).kind = "resolve"
  /\ tc' = [ResolveThenable(tc, Chained(c).target, c, tc[c].fin.val)
              EXCEPT ![c].fin.i = @ + 1, ![c].fin.val = Undefined]
  /\ UNCHANGED <<ncases, raised, trace, outside>>

\* The promise a continuation returned is resolved with a value.
deferredResolves(c) ==
  /\ Quiet /\ Created(c)
  /\ tc[c].fin.st = "waiting" /\ tc[c].fin.wait = "deferred"
  /\ LET v == Resolved(c, Chained(c).id) IN
       /\ trace' = Append(trace, [ev |-> "settled", tc |-> c,
                                  id |-> Chained(c).id, arg |-> v])
       /\ tc' = [tc EXCEPT ![c].fin.st = "running", ![c].fin.i = @ + 1,
                           ![c].fin.val = v, ![c].fin.wait = "none"]
  /\ UNCHANGED <<ncases, raised, outside>>

\* The promise a continuation returned is rejected.
deferredRejects(c) ==
  /\ Quiet /\ Created(c)
  /\ tc[c].fin.st = "waiting" /\ tc[c].fin.wait = "deferred"
  /\ LET v == Rejection(c, Chained(c).id) IN
       /\ trace' = Append(trace, [ev |-> "settled", tc |-> c,
                                  id |-> Chained(c).id, arg |-> v])
       /\ tc' = [tc EXCEPT ![c].fin.st = "failing", ![c].fin.val = v,
                           ![c].fin.wait = "none"]
  /\ UNCHANGED <<ncases, raised, outside>>

\* The promise result._run() returned for a nested TestCase settles: the
\* outer chain goes on with its value, or is rejected with its reason.
nestedSettles(c) ==
  /\ Created(c)
  /\ tc[c].fin.st = "waiting" /\ tc[c].fin.wait = "testcase"
  /\ LET d == RunPromise(tc, tc[c].fin.sub) IN
       /\ d.st # "pending"
       /\ tc' = IF d.st = "fulfilled"
                  THEN [tc EXCEPT ![c].fin.st = "running", ![c].fin.i = @ + 1,
                                  ![c].fin.val = d.val, ![c].fin.wait = "none"]
                  ELSE [tc EXCEPT ![c].fin.st = "failing",
                                  ![c].fin.val = d.val, ![c].fin.wait = "none"]
  /\ UNCHANGED <<ncases, raised, trace, outside>>

\* promise.then(function (data) { defer.resolve(data) })
resolveStep(c) ==
  /\ Running(c)
  /\ tc[c].fin.i = Len(tc[c].fin.evs) + Len(tc[c].fin.conts)
  /\ tc' = [tc EXCEPT ![c].fin.st = "fulfilled",
                      ![c].defer = Settle(@, "fulfilled", tc[c].fin.val)]
  /\ UNCHANGED <<ncases, raised, trace, outside>>

\* .fail(function (err) { defer.reject(err) })
rejectStep(c) ==
  /\ Created(c)
  /\ tc[c].fin.st = "failing"
  /\ tc' = [tc EXCEPT ![c].fin.st = "rejected",
                      ![c].defer = Settle(@, "rejected", tc[c].fin.val)]
  /\ UNCHANGED <<ncases, raised, trace, outside>>

\* -------------------------------------------------------- handlers of done()
\* .fail(function (err) { self._log('ERROR ' + err); test.fail(...) })
failHandler(c) ==
  /\ Created(c)
  /\ tc[c].done = "pending" /\ RunPromise(tc, c).st = "rejected"
  /\ trace' = Append(trace, [ev |-> "fail", tc |-> c,
                              arg |-> RunPromise(tc, c).val,
                              on |-> tc[c].asserter])
  /\ tc' = [tc EXCEPT ![c].done = "failed"]
  /\ UNCHANGED <<ncases, raised, outside>>

\* .fin(function () { test.done() })
finHandler(c) ==
  /\ Created(c)
  /\ \/ tc[c].done = "failed"
     \/ tc[c].done = "pending" /\ RunPromise(tc, c).st = "fulfilled"
  /\ trace' = Append(trace, [ev |-> "done", tc |-> c, on |-> tc[c].asserter])
  /\ tc' = [tc EXCEPT ![c].done = "called"]
  /\ UNCHANGED <<ncases, raised, outside>>

\* ------------------------------------------------------------ specification
Build(L) ==
  \E c \in Cases :
    \/ \E a \in Asserters : setAsserter(c, a)
    \/ evaluate(c, L.evals)
    \/ then(c, L.chain)

Start ==
  \E c \in Cases :
    \/ done(c)
    \/ \E a \in Asserters \cup {NoAsserter} : fn(c, a)

Receiving(L, chunks) ==
  \E c \in Cases :
    \/ \E statusCode \in StatusCodes(L.statuses) : handleHttpResponse(c, statusCode)
    \/ \E d \in chunks : onData(c, d, L.body)
    \/ onEnd(c)
    \/ \E e \in Errors(L.errors) : handleHttpError(c, e)

Network(L) == Receiving(L, Chunks)

Chain(L) ==
  \E c \in Cases :
    \/ evaluatorStep(c)
    \/ chainedValue(c)
    \/ chainedDeferred(c)
    \/ chainedThrow(c)
    \/ \E f \in {"instance", "fn"}, ne \in 0 .. L.nestedEvals,
          nc \in 0 .. L.nestedChain :
         chainedTestCase(c, f, ne, nc, L.cases)
    \/ chainedResolve(c)
    \/ deferredResolves(c)
    \/ deferredRejects(c)
    \/ nestedSettles(c)
    \/ resolveStep(c)
    \/ rejectStep(c)

Completion ==
  \E c \in Cases :
    \/ failHandler(c)
    \/ finHandler(c)

Next(L) == Build(L) \/ Start \/ Network(L) \/ Chain(L) \/ Completion

\* ----------------------------------------------------------------- timeout
\* withTimeoutMs(ms): this._timeoutMs = ms, set before the run starts.
withTimeoutMs(c, ms) ==
  /\ Quiet /\ Created(c) /\ c = 1
  /\ tc[c].req = "unsent" /\ tc[c].timeoutMs = 0
  /\ tc' = [tc EXCEPT ![c].timeoutMs = ms]
  /\ UNCHANGED <<ncases, raised, trace, outside>>

\* The timer of promise.timeout(this._timeoutMs) is running: the run has
\* started with a timeout and its deferred is not settled.
TimerRunning(c) ==
  /\ Created(c)
  /\ tc[c].timeoutMs > 0 /\ ~tc[c].timedOut
  /\ tc[c].req # "unsent" /\ tc[c].defer.st = "pending"

\* The timer fires: the promise _run() returned is rejected with
\* 'Timed out after <ms> ms'.  The request and the chain go on.
timeoutExpires(c) ==
  /\ Quiet /\ TimerRunning(c)
  /\ tc' = [tc EXCEPT ![c].timedOut = TRUE]
  /\ UNCHANGED <<ncases, raised, trace, outside>>

Timing ==
  \E c \in Cases :
    \/ \E ms \in 1 .. MaxTimeoutMs : withTimeoutMs(c, ms)
    \/ timeoutExpires(c)

NextTimeout == Next(TimeoutBounds) \/ Timing

\* Test cases that may dump, with a timeout or without.
DumpCases == 2
DumpEvals == 1
DumpChain == 1
DumpNestedEvals == 1
DumpNestedChain == 0
DumpBody == 0
DumpErrors == 1
DumpStatuses == 1

DumpBounds ==
  [cases |-> DumpCases, evals |-> DumpEvals, chain |-> DumpChain,
   nestedEvals |-> DumpNestedEvals, nestedChain |-> DumpNestedChain,
   body |-> DumpBody, errors |-> DumpErrors, statuses |-> DumpStatuses]

Dumping ==
  \E c \in Cases :
    \/ dump(c)
    \/ dumpStep(c)

NextDump == Next(DumpBounds) \/ Timing \/ Dumping

Spec == Init /\ [][Next(Bounds)]_vars

SpecDeep == Init /\ [][Next(DeepBounds)]_vars

SpecTimeout == Init /\ [][NextTimeout]_vars

\* One test case whose response comes in chunks of two different texts.
BodyCases == 2
BodyEvals == 1
BodyChain == 1
BodyNestedEvals == 0
BodyNestedChain == 0
BodyLength == 2
BodyErrors == 1
BodyStatuses == 1

BodyBounds ==
  [cases |-> BodyCases, evals |-> BodyEvals, chain |-> BodyChain,
   nestedEvals |-> BodyNestedEvals, nestedChain |-> BodyNestedChain,
   body |-> BodyLength, errors |-> BodyErrors, statuses |-> BodyStatuses]

BodyChunks == Chunks \cup {<<"b">>}

NextBody ==
  \/ Build(BodyBounds) \/ Start \/ Receiving(BodyBounds, BodyChunks)
  \/ Chain(BodyBounds) \/ Completion

SpecDump == Init /\ [][NextDump]_vars

SpecBody == Init /\ [][NextBody]_vars

\* ------------------------------------------------------------ option sets
\* JavaScript values a header can hold: undefined (no such property), a
\* string, a number.
JsUndefined == [type |-> "undefined", s |-> "", n |-> 0]

JsString(x) == [type |-> "string", s |-> x, n |-> 0]

JsNumber(k) == [type |-> "number", s |-> "", n |-> k]

\* !v: undefined, '' and 0 are falsy.
Falsy(v) ==
  \/ v.type = "undefined"
  \/ v.type = "string" /\ v.s = ""
  \/ v.type = "number" /\ v.n = 0

HeaderKeys == {"Cookie", "Content-Length", "Content-Type", "Test-Header"}

\* {}: an object without properties.
NoHeaders == [k \in HeaderKeys |-> JsUndefined]

\* this._payload: null or a Buffer of bytes.
NullPayload == [null |-> TRUE, bytes |-> <<>>]

Buffer(b) == [null |-> FALSE, bytes |-> b]

\* A url string, by its parts: 'http://host:8080/a/b' has protocol 'http:',
\* hostname 'host', port 8080 and the path segments a, b; '/a/b' has only a
\* rooted path, 'a/b' only a path, '' nothing.
Url(protocol, hostname, port, rooted, segs) ==
  [protocol |-> protocol, hostname |-> hostname, port |-> port,
   rooted |-> rooted, segs |-> segs]

EmptyUrl == Url("", "", 0, FALSE, <<>>)

\* A file path, by its segments: '/schemas' is rooted, 'schema.json' is not.
Path(rooted, segs) == [rooted |-> rooted, segs |-> segs]

EmptyPath == Path(FALSE, <<>>)

\* A string whose characters matter is the sequence of its character codes
\* (UTF-16 units of the basic plane).
GET == <<71, 69, 84>>

\* 'data'
Data == <<100, 97, 116, 97>>

\* Options(): a new option set of class kind; its maps and its array are new
\* objects of the heap, at the reference Len(heap...) + 1.
NewOptions(kind, url) ==
  [kind |-> kind, _url |-> url, _asserter |-> FALSE,
   _headers |-> Len(heap.headers) + 1,
   _cookies |-> Len(heap.cookies) + 1,
   _payload |-> NullPayload,
   _httpMethod |-> GET,
   _xssiPrefix |-> "",
   _evaluators |-> Len(heap.evaluators) + 1,
   _jsonSchema |-> Len(heap.schema) + 1]

\* The heap after Options() allocated {} for _headers, {} for _cookies, [] for
\* _evaluators and {} for _jsonSchema; fns holds the functions toNodeUnitFn
\* returned.
AllocOptions ==
  [headers |-> Append(heap.headers, NoHeaders),
   cookies |-> Append(heap.cookies, <<>>),
   evaluators |-> Append(heap.evaluators, <<>>),
   schema |-> Append(heap.schema, {}),
   fns |-> heap.fns]

Objects == 1 .. Len(options)

\* Reading a field through its reference.
HeadersOf(o) == heap.headers[options[o]._headers]

CookiesOf(o) == heap.cookies[options[o]._cookies]

EvaluatorsOf(o) == heap.evaluators[options[o]._evaluators]

SchemaOf(o) == heap.schema[options[o]._jsonSchema]

\* new TestCase(url)
newTestCaseObject(url, max) ==
  /\ Len(options) < max
  /\ options' = Append(options, NewOptions("TestCase", url))
  /\ heap' = AllocOptions
  /\ UNCHANGED <<ncases, tc, raised, trace, config, sent, adapter>>

\* new TestTemplate()
newTestTemplate(max) ==
  /\ Len(options) < max
  /\ options' = Append(options, NewOptions("TestTemplate", EmptyUrl))
  /\ heap' = AllocOptions
  /\ UNCHANGED <<ncases, tc, raised, trace, config, sent, adapter>>

\* withHeader(key, value): this._headers[key] = value
withHeader(o, key, value) ==
  /\ o \in Objects
  /\ heap' = [heap EXCEPT !.headers[options[o]._headers][key] = value]
  /\ UNCHANGED <<ncases, tc, raised, trace, options, config, sent, adapter>>

\* this._cookies[name] = value that adds a property whether or not the map
\* has the name.
SetCookieAppends(ck, name, value) == Append(ck, [name |-> name, value |-> value])

\* this._cookies[name] = value on the cookie map ck: a new name is added
\* after the others, a known name keeps its place (property order of for-in).
RECURSIVE SetCookie(_, _, _)
SetCookie(ck, name, value) ==
  IF ck = <<>> THEN <<[name |-> name, value |-> value]>>
  ELSE IF Head(ck).name = name
       THEN <<[name |-> name, value |-> value]>> \o Tail(ck)
       ELSE <<Head(ck)>> \o SetCookie(Tail(ck), name, value)

\* withCookie(name, value)
withCookie(o, name, value) ==
  /\ o \in Objects
  /\ heap' = [heap EXCEPT !.cookies[options[o]._cookies] =
                SetCookie(@, name, value)]
  /\ UNCHANGED <<ncases, tc, raised, trace, options, config, sent, adapter>>

\* The decimal digits of a number that is a natural.
RECURSIVE NumberToString(_)
NumberToString(n) ==
  IF n < 10 THEN <<"0", "1", "2", "3", "4", "5", "6", "7", "8", "9">>[n + 1]
  ELSE NumberToString(n \div 10) \o NumberToString(n % 10)

\* '' + v: what string concatenation makes of a value.
StringOf(v) ==
  IF v.type = "string" THEN v.s
  ELSE IF v.type = "number" THEN NumberToString(v.n)
  ELSE "undefined"

\* cookies.push(name + '=' + this._cookies[name]) for every name, then
\* cookies.join('; ').
RECURSIVE JoinCookies(_)
JoinCookies(ck) ==
  IF ck = <<>> THEN ""
  ELSE IF Len(ck) = 1 THEN Head(ck).name \o "=" \o StringOf(Head(ck).value)
  ELSE Head(ck).name \o "=" \o StringOf(Head(ck).value) \o "; "
       \o JoinCookies(Tail(ck))

\* getHeaders() on the header map h and the cookie map ck: a copy of h, with
\* a Cookie header made of the cookies when !headers['Cookie'].
GetHeaders(h, ck) ==
  IF Falsy(h["Cookie"]) /\ Len(ck) > 0
  THEN [h EXCEPT !["Cookie"] = JsString(JoinCookies(ck))]
  ELSE h

getHeaders(o) == GetHeaders(HeadersOf(o), CookiesOf(o))

\* ---------------------------------------------------------------- strings
\* String.prototype.toUpperCase on the letters a to z.
RECURSIVE ToUpperCase(_)
ToUpperCase(s) ==
  IF s = <<>> THEN <<>>
  ELSE <<IF Head(s) >= 97 /\ Head(s) <= 122 THEN Head(s) - 32 ELSE Head(s)>>
         \o ToUpperCase(Tail(s))

\* The UTF-8 bytes of one character.
Utf8Char(c) ==
  IF c < 128 THEN <<c>>
  ELSE IF c < 2048 THEN <<192 + (c \div 64), 128 + (c % 64)>>
  ELSE <<224 + (c \div 4096), 128 + ((c \div 64) % 64), 128 + (c % 64)>>

\* new Buffer(s, 'utf8'): the bytes of the string s.
RECURSIVE Utf8(_)
Utf8(s) == IF s = <<>> THEN <<>> ELSE Utf8Char(Head(s)) \o Utf8(Tail(s))

\* One hexadecimal digit, upper case.
HexDigit(d) == IF d < 10 THEN 48 + d ELSE 55 + d

\* %XX for every byte of bs.
RECURSIVE PercentEncode(_)
PercentEncode(bs) ==
  IF bs = <<>> THEN <<>>
  ELSE <<37, HexDigit(Head(bs) \div 16), HexDigit(Head(bs) % 16)>>
         \o PercentEncode(Tail(bs))

\* Characters encodeURIComponent leaves alone: A-Z a-z 0-9 - _ . ! ~ * ' ( )
UriUnreserved(c) ==
  \/ c >= 65 /\ c <= 90
  \/ c >= 97 /\ c <= 122
  \/ c >= 48 /\ c <= 57
  \/ c \in {45, 95, 46, 33, 126, 42, 39, 40, 41}

RECURSIVE encodeURIComponent(_)
encodeURIComponent(s) ==
  IF s = <<>> THEN <<>>
  ELSE (IF UriUnreserved(Head(s)) THEN <<Head(s)>>
        ELSE PercentEncode(Utf8Char(Head(s))))
       \o encodeURIComponent(Tail(s))

\* parts.push(encodeURIComponent(key) + '=' + encodeURIComponent(payload[key]))
\* for every key of the object obj, then parts.join('&').
RECURSIVE FormEncode(_)
FormEncode(obj) ==
  IF obj = <<>> THEN <<>>
  ELSE encodeURIComponent(Head(obj).key) \o <<61>>
       \o encodeURIComponent(Head(obj).value)
       \o (IF Len(obj) > 1 THEN <<38>> \o FormEncode(Tail(obj)) ELSE <<>>)

\* The characters of a JSON string literal, without the quotes: " and \ are
\* escaped, other characters (from the space on) stand for themselves.
RECURSIVE JsonEscape(_)
JsonEscape(s) ==
  IF s = <<>> THEN <<>>
  ELSE (IF Head(s) \in {34, 92} THEN <<92, Head(s)>> ELSE <<Head(s)>>)
       \o JsonEscape(Tail(s))

RECURSIVE JsonMembers(_)
JsonMembers(obj) ==
  IF obj = <<>> THEN <<>>
  ELSE <<34>> \o JsonEscape(Head(obj).key) \o <<34, 58, 34>>
       \o JsonEscape(Head(obj).value) \o <<34>>
       \o (IF Len(obj) > 1 THEN <<44>> \o JsonMembers(Tail(obj)) ELSE <<>>)

\* JSON.stringify of an object whose values are strings.
JsonStringify(obj) == <<123>> \o JsonMembers(obj) \o <<125>>

\* ------------------------------------------------------- option sets, more
\* withMethod(method): this._httpMethod = method.toUpperCase()
withMethod(o, method) ==
  /\ o \in Objects
  /\ options' = [options EXCEPT ![o]._httpMethod = ToUpperCase(method)]
  /\ UNCHANGED <<ncases, tc, raised, trace, heap, config, sent, adapter>>

\* withContentType(contentType): this._headers['Content-Type'] = contentType
withContentType(o, contentType) ==
  /\ o \in Objects
  /\ heap' = [heap EXCEPT !.headers[options[o]._headers]["Content-Type"] =
                JsString(contentType)]
  /\ UNCHANGED <<ncases, tc, raised, trace, options, config, sent, adapter>>

\* What withPayload(payload) stores: a string becomes the Buffer of its UTF-8
\* bytes, a Buffer is stored as it is.
PayloadBuffer(payload) ==
  IF payload.type = "string" THEN Buffer(Utf8(payload.chars)) ELSE payload.buffer

\* payload.length taken before the string becomes a Buffer: characters.
PayloadLengthInCharacters(payload) ==
  IF payload.type = "string" THEN Len(payload.chars)
  ELSE Len(payload.buffer.bytes)

\* payload.length of the Buffer stored: bytes.
PayloadLength(payload) == Len(PayloadBuffer(payload).bytes)

\* The state after withPayload(payload), then withContentType(contentType)
\* when one is given: this._payload = payload and
\* this.withHeader('Content-Length', payload.length).
SetPayload(o, payload, contentType) ==
  /\ options' = [options EXCEPT ![o]._payload = PayloadBuffer(payload)]
  /\ heap' = [heap EXCEPT !.headers[options[o]._headers] =
                [k \in HeaderKeys |->
                   IF k = "Content-Length"
                   THEN JsNumber(PayloadLength(payload))
                   ELSE IF k = "Content-Type" /\ contentType # ""
                   THEN JsString(contentType)
                   ELSE @[k]]]
  /\ UNCHANGED <<ncases, tc, raised, trace, config, sent, adapter>>

StringPayload(s) == [type |-> "string", chars |-> s, buffer |-> NullPayload]

BufferPayload(b) == [type |-> "object", chars |-> <<>>, buffer |-> Buffer(b)]

\* withPayload(payload)
withPayload(o, payload) ==
  /\ o \in Objects
  /\ SetPayload(o, payload, "")

\* withFormEncodedPayload(payload)
withFormEncodedPayload(o, obj) ==
  /\ o \in Objects
  /\ SetPayload(o, StringPayload(FormEncode(obj)),
                "application/x-www-form-urlencoded")

\* withJsonPayload(payload)
withJsonPayload(o, obj) ==
  /\ o \in Objects
  /\ SetPayload(o, StringPayload(JsonStringify(obj)), "application/json")

\* Specification SpecOptions: one option set, configured by any sequence of
\* builder calls.
OptionObjects == 1

HeaderValues == {JsString(""), JsString("sid=s")}

CookieNames == {"a", "b"}

CookieValues == {JsString("1"), JsNumber(20)}

Headers ==
  \E o \in Objects :
    \/ \E key \in {"Cookie", "Test-Header"}, value \in HeaderValues :
         withHeader(o, key, value)
    \/ withHeader(o, "Content-Length", JsString("99"))
    \/ \E name \in CookieNames, value \in CookieValues :
         withCookie(o, name, value)

\* Payload strings: '', 'data', 'e' with an acute accent (two bytes), the euro
\* sign followed by 'a' (four bytes).
PayloadStrings == {<<>>, Data, <<233>>, <<8364, 97>>}

PayloadBuffers == {<<0, 255, 10>>}

\* Objects: {a: '=&'}, {k: 'x"' + e acute, b: ''}
PayloadObjects ==
  {<<[key |-> <<97>>, value |-> <<61, 38>>]>>,
   <<[key |-> <<107>>, value |-> <<120, 34, 233>>],
     [key |-> <<98>>, value |-> <<>>]>>}

Payloads ==
  \E o \in Objects :
    \/ \E s \in PayloadStrings : withPayload(o, StringPayload(s))
    \/ \E b \in PayloadBuffers : withPayload(o, BufferPayload(b))
    \/ \E obj \in PayloadObjects : withFormEncodedPayload(o, obj)
    \/ \E obj \in PayloadObjects : withJsonPayload(o, obj)

NextOptions ==
  \/ newTestCaseObject(EmptyUrl, OptionObjects)
  \/ Headers
  \/ Payloads

SpecOptions == Init /\ [][NextOptions]_vars

\* ---------------------------------------------------------------- templates
\* An evaluator function in the array of an option set: fn names the function,
\* arg what its closure keeps (the prefix, the schema path).
Evaluator(f, arg) == [fn |-> f, arg |-> arg]

\* Options.prototype.evaluate: this._evaluators.push(fn), on the array the
\* field refers to.
pushEvaluator(o, f, max) ==
  /\ o \in Objects
  /\ Len(EvaluatorsOf(o)) < max
  /\ heap' = [heap EXCEPT !.evaluators[options[o]._evaluators] = Append(@, f)]
  /\ UNCHANGED <<ncases, tc, raised, trace, options, config, sent, adapter>>

\* expectXssiPrefix(prefix): this._xssiPrefix = prefix, then evaluate(...)
expectXssiPrefix(o, prefix, max) ==
  /\ o \in Objects
  /\ Len(EvaluatorsOf(o)) < max
  /\ options' = [options EXCEPT ![o]._xssiPrefix = prefix]
  /\ heap' = [heap EXCEPT !.evaluators[options[o]._evaluators] =
                Append(@, Evaluator("expectXssiPrefix", prefix))]
  /\ UNCHANGED <<ncases, tc, raised, trace, config, sent, adapter>>

\* expectStatusCode that looks for a status-code check already registered and
\* puts the new one in its place.
expectStatusCodeOverrides(o, statusCode, max) ==
  /\ o \in Objects
  /\ Len(EvaluatorsOf(o)) < max
  /\ LET es == EvaluatorsOf(o)
         mine == {x \in 1 .. Len(es) : es[x].fn = "expectStatusCode"}
         new == [fn |-> "expectStatusCode", arg |-> statusCode]
     IN  heap' = [heap EXCEPT !.evaluators[options[o]._evaluators] =
                    IF mine = {} THEN Append(es, new)
                    ELSE [es EXCEPT ![CHOOSE x \in mine : TRUE] = new]]
  /\ UNCHANGED <<ncases, tc, raised, trace, options, config, sent, adapter>>

\* expectStatusCode(statusCode): this.evaluate(function (test, res) { ... })
expectStatusCode(o, statusCode, max) ==
  pushEvaluator(o, [fn |-> "expectStatusCode", arg |-> statusCode], max)

\* TestTemplate.prototype.newTestCase(url): after new TestCase(url) and
\* this.getHeaders(), this._cookies.concat() is called on the map Options()
\* created with {}: a plain object has no concat, the call throws a TypeError
\* and no test case is returned.
newTestCase(t, url, max) ==
  /\ t \in Objects /\ options[t].kind = "TestTemplate"
  /\ Len(raised) < max
  /\ raised' = Append(raised, "TypeError: this._cookies.concat is not a function")
  /\ UNCHANGED <<ncases, tc, trace, outside>>

\* An Options object of class kind after _copy(source): the fields, and the
\* heap holding the new header map, cookie map and evaluator array.
\* _jsonSchema is the reference of the source.
_copy(kind, url, source) ==
  [object |->
     [kind |-> kind, _url |-> url, _asserter |-> FALSE,
      _headers |-> Len(heap.headers) + 1,
      _cookies |-> Len(heap.cookies) + 1,
      _payload |-> options[source]._payload,
      _httpMethod |-> options[source]._httpMethod,
      _xssiPrefix |-> options[source]._xssiPrefix,
      _evaluators |-> Len(heap.evaluators) + 1,
      _jsonSchema |-> options[source]._jsonSchema],
   heap |->
     [heap EXCEPT !.headers = Append(@, getHeaders(source)),
                  !.cookies = Append(@, CookiesOf(source)),
                  !.evaluators = Append(@, EvaluatorsOf(source))]]

\* clone(): a new TestTemplate with the settings of this one copied by _copy.
clone(t, max) ==
  /\ t \in Objects /\ options[t].kind = "TestTemplate"
  /\ Len(options) < max
  /\ options' = Append(options, _copy("TestTemplate", EmptyUrl, t).object)
  /\ heap' = _copy("TestTemplate", EmptyUrl, t).heap
  /\ UNCHANGED <<ncases, tc, raised, trace, config, sent, adapter>>

\* The settings of object o in the option sets opts over the heap hp.
SettingsIn(opts, hp, o) ==
  [headers |-> hp.headers[opts[o]._headers],
   cookies |-> hp.cookies[opts[o]._cookies],
   payload |-> opts[o]._payload,
   method |-> opts[o]._httpMethod,
   xssiPrefix |-> opts[o]._xssiPrefix,
   evaluators |-> hp.evaluators[opts[o]._evaluators]]

Settings(o) == SettingsIn(options, heap, o)

\* Specification SpecTemplate: templates, their clones and the test cases
\* made from them, each configured by builder calls.
TemplateObjects == 2
TemplateEvals == 1
TemplateThrows == 1

PUT == <<112, 117, 116>>

UserEvaluator == Evaluator("evaluator", "")

XssiPrefix == "])}while(1);"

Configure(max) ==
  \E o \in Objects :
    \/ withHeader(o, "Test-Header", JsString("1234"))
    \/ \E value \in {JsString("dan"), JsString("bob")} :
         withCookie(o, "username", value)
    \/ withMethod(o, PUT)
    \/ withPayload(o, StringPayload(Data))
    \/ pushEvaluator(o, UserEvaluator, max)
    \/ expectXssiPrefix(o, XssiPrefix, max)

NextTemplate ==
  \/ newTestTemplate(1)
  \/ Configure(TemplateEvals)
  \/ \E t \in Objects : newTestCase(t, "/one", TemplateThrows)
  \/ \E t \in Objects : clone(t, TemplateObjects)

SpecTemplate == Init /\ [][NextTemplate]_vars

\* ------------------------------------------------------------------ asserter
\* The Asserters of the test runner, one per test it runs.  _callback lists
\* the invocations of the callback given to the constructor, each with the
\* errors it was handed.
MaxAsserters == 2
MaxAsserterErrors == 2

Messages == {"expected 200", "Timed out after 1 ms"}

AssertionError == "AssertionError"

AsserterObjects == 1 .. Len(adapter)

\* runTest: new Asserter(callback)
newAsserter ==
  /\ Len(adapter) < MaxAsserters
  /\ adapter' = Append(adapter, [_finished |-> FALSE, _errors |-> <<>>,
                                 _callback |-> <<>>])
  /\ UNCHANGED <<ncases, tc, raised, trace, options, heap, config, sent>>

\* this._callback.call(null, this._errors, this._logs)
Callback(a) == [a EXCEPT !._callback = Append(@, a._errors)]

\* Asserter.prototype.fail(message) on the asserter a.
Fail(a, message) ==
  IF a._finished THEN a
  ELSE Callback([a EXCEPT !._finished = TRUE, !._errors = Append(@, message)])

asserterFail(x, message) ==
  /\ x \in AsserterObjects
  /\ Len(adapter[x]._errors) < MaxAsserterErrors
  /\ adapter' = [adapter EXCEPT ![x] = Fail(@, message)]
  /\ UNCHANGED <<ncases, tc, raised, trace, options, heap, config, sent>>

\* done() without the _finished guard.
DoneAgain(a) == Callback([a EXCEPT !._finished = TRUE])

\* Asserter.prototype.done() on the asserter a.
Done(a) == IF a._finished THEN a ELSE Callback([a EXCEPT !._finished = TRUE])

asserterDone(x) ==
  /\ x \in AsserterObjects
  /\ Len(adapter[x]._callback) < MaxAsserterErrors
  /\ adapter' = [adapter EXCEPT ![x] = Done(@)]
  /\ UNCHANGED <<ncases, tc, raised, trace, options, heap, config, sent>>

\* A wrapped assertion (ok, equal, ...): assert[method] throws when the
\* assertion fails and the error is pushed, finished or not.
wrappedAssert(x, passes) ==
  /\ x \in AsserterObjects
  /\ Len(adapter[x]._errors) < MaxAsserterErrors
  /\ adapter' = IF passes THEN adapter
                ELSE [adapter EXCEPT ![x]._errors = Append(@, AssertionError)]
  /\ UNCHANGED <<ncases, tc, raised, trace, options, heap, config, sent>>

NextAsserter ==
  \/ newAsserter
  \/ \E x \in AsserterObjects :
       \/ \E message \in Messages : asserterFail(x, message)
       \/ asserterDone(x)
       \/ \E passes \in BOOLEAN : wrappedAssert(x, passes)

SpecAsserter == Init /\ [][NextAsserter]_vars

\* A run on an Asserter of the runner: the evaluators of _finalize call
\* test.fail and the wrapped assertions, then _finalize calls test.done().
\* trace lists the failures the run records on asserter x and its done().
Finalized(x) == \E e \in 1 .. Len(trace) : trace[e].ev = "done" /\ trace[e].on = x

\* test.fail(message) in an evaluator (expectXssiPrefix, validateJson, ...)
evaluatorFail(x, message, max) ==
  /\ x \in AsserterObjects /\ ~Finalized(x)
  /\ Len(trace) < max
  /\ adapter' = [adapter EXCEPT ![x] = Fail(@, message)]
  /\ trace' = Append(trace, [ev |-> "fail", on |-> x, error |-> message])
  /\ UNCHANGED <<ncases, tc, raised, options, heap, config, sent>>

\* test.equals(...) or test.ok(...) in an evaluator, the assertion failing
\* or not.
evaluatorAssert(x, passes, max) ==
  /\ x \in AsserterObjects /\ ~Finalized(x)
  /\ Len(trace) < max
  /\ adapter' = IF passes THEN adapter
                ELSE [adapter EXCEPT ![x]._errors = Append(@, AssertionError)]
  /\ trace' = IF passes THEN trace
              ELSE Append(trace, [ev |-> "assert", on |-> x, error |-> AssertionError])
  /\ UNCHANGED <<ncases, tc, raised, options, heap, config, sent>>

\* this._asserter.done() at the end of _finalize
finalizeDone(x) ==
  /\ x \in AsserterObjects /\ ~Finalized(x)
  /\ adapter' = [adapter EXCEPT ![x] = Done(@)]
  /\ trace' = Append(trace, [ev |-> "done", on |-> x, error |-> ""])
  /\ UNCHANGED <<ncases, tc, raised, options, heap, config, sent>>

\* Specification SpecCollect: runs on the Asserters of the runner.
CollectCalls == 4

NextCollect ==
  \/ newAsserter
  \/ \E x \in AsserterObjects :
       \/ \E message \in Messages : evaluatorFail(x, message, CollectCalls)
       \/ \E passes \in BOOLEAN : evaluatorAssert(x, passes, CollectCalls)
       \/ finalizeDone(x)

SpecCollect == Init /\ [][NextCollect]_vars

\* ------------------------------------------------------------------ runner
\* The test runner. The tests discovered are numbered in the order of the
\* for loops over the files and their keys; test n runs on asserter n. trace
\* lists the starts of the tests, what each run records, and the end of the
\* runner.
RunnerTests == 2
RunnerCalls == 4

\* The runner has printed its summary or has exited on its timeout.
Exited == \E e \in 1 .. Len(trace) : trace[e].ev \in {"summary", "timeout"}

\* deferred.resolve(true) of runTest for test x: the callback of its asserter
\* has been invoked.
TestResolved(x) == adapter[x]._callback # <<>>

\* results: one entry for each callback invocation handed errors (errors.length).
results ==
  SelectSeq([x \in 1 .. Len(adapter) |-> [test |-> x, errors |-> adapter[x]._callback]],
            LAMBDA r : r.errors # <<>> /\ r.errors[1] # <<>>)

\* runTest called for every test in the loop, as without the serial flag.
runTestAtOnce(serial, max) ==
  /\ ~Exited
  /\ Len(adapter) < max
  /\ adapter' = Append(adapter, [_finished |-> FALSE, _errors |-> <<>>,
                                 _callback |-> <<>>])
  /\ trace' = Append(trace, [ev |-> "start", on |-> Len(adapter) + 1, error |-> ""])
  /\ UNCHANGED <<ncases, tc, raised, options, heap, config, sent>>

\* runTest(file, name, testCase) for the next test: new Asserter(callback),
\* testCase(asserter). With the serial flag it is the then-handler of
\* serialChain, called when the promise of the test before it is resolved;
\* without it, it is called in the loop.
runTest(serial, max) ==
  /\ ~Exited
  /\ Len(adapter) < max
  /\ (serial /\ Len(adapter) > 0) => TestResolved(Len(adapter))
  /\ adapter' = Append(adapter, [_finished |-> FALSE, _errors |-> <<>>,
                                 _callback |-> <<>>])
  /\ trace' = Append(trace, [ev |-> "start", on |-> Len(adapter) + 1, error |-> ""])
  /\ UNCHANGED <<ncases, tc, raised, options, heap, config, sent>>

\* The last then-handler of the runner, called when the promise of every test
\* is resolved: the summary, process.exit(1) if results.length.
summary(max) ==
  /\ ~Exited
  /\ Len(adapter) = max
  /\ \A x \in AsserterObjects : TestResolved(x)
  /\ trace' = Append(trace, [ev |-> "summary", on |-> 0,
                             error |-> IF Len(results) > 0
                                       THEN "FINISHED WITH FAILURES"
                                       ELSE "No errors, good job!"])
  /\ UNCHANGED <<ncases, tc, raised, options, heap, config, sent, adapter>>

\* setTimeout(..., timeoutSecs * 1000): process.exit(1)
runnerTimeout ==
  /\ ~Exited
  /\ trace' = Append(trace, [ev |-> "timeout", on |-> 0,
                             error |-> "Tests timed out, maybe test.done() was not called."])
  /\ UNCHANGED <<ncases, tc, raised, options, heap, config, sent, adapter>>

\* Specification SpecRunner: the runner with the serial flag, and the runs of
\* the tests it starts.
NextRunner ==
  \/ runTest(TRUE, RunnerTests)
  \/ summary(RunnerTests)
  \/ runnerTimeout
  \/ \E x \in AsserterObjects :
       /\ ~Exited
       /\ \/ \E message \in Messages : evaluatorFail(x, message, RunnerCalls + RunnerTests)
          \/ \E passes \in BOOLEAN : evaluatorAssert(x, passes, RunnerCalls + RunnerTests)
          \/ finalizeDone(x)

SpecRunner == Init /\ [][NextRunner]_vars

\* -------------------------------------------------------- global settings
\* falkor.setBaseUrl(url)
setBaseUrl(url) ==
  /\ config.baseUrl # url
  /\ config' = [config EXCEPT !.baseUrl = url]
  /\ UNCHANGED <<ncases, tc, raised, trace, options, heap, sent, adapter>>

\* falkor.setRootSchemaPath(path)
setRootSchemaPath(path) ==
  /\ config.rootSchemaPath # path
  /\ config' = [config EXCEPT !.rootSchemaPath = path]
  /\ UNCHANGED <<ncases, tc, raised, trace, options, heap, sent, adapter>>

\* All but the last element.
Front(s) == SubSeq(s, 1, Len(s) - 1)

\* urlLib.resolve(base, url): a url with a protocol stands for itself; a
\* rooted path replaces the path of base; another path replaces the last
\* segment of the path of base.
UrlResolveKeepsHost(base, url) ==
  IF url.rooted THEN [base EXCEPT !.rooted = TRUE, !.segs = url.segs]
  ELSE [base EXCEPT !.rooted = TRUE,
                    !.segs = (IF @ = <<>> THEN <<>> ELSE Front(@)) \o url.segs]

UrlResolve(base, url) ==
  IF url.protocol # "" THEN url
  ELSE IF url.rooted THEN [base EXCEPT !.rooted = TRUE, !.segs = url.segs]
  ELSE [base EXCEPT !.rooted = TRUE,
                    !.segs = (IF @ = <<>> THEN <<>> ELSE Front(@)) \o url.segs]

\* config.baseUrl ? urlLib.resolve(config.baseUrl, this._url) : this._url
RequestUrl(base, url) == IF base # EmptyUrl THEN UrlResolve(base, url) ELSE url

\* The working directory of the process.
Cwd == <<"work">>

\* path.resolve(root, schemaPath)
PathResolve(root, schemaPath) ==
  IF schemaPath.rooted THEN schemaPath
  ELSE IF root.rooted THEN Path(TRUE, root.segs \o schemaPath.segs)
  ELSE Path(TRUE, Cwd \o root.segs \o schemaPath.segs)

\* The path validateJson and addJsonSchema keep in the closure of their
\* evaluator: resolved against config.rootSchemaPath, if there is one, when
\* the builder is called.
SchemaFile(schemaPath) ==
  IF config.rootSchemaPath # EmptyPath
  THEN PathResolve(config.rootSchemaPath, schemaPath)
  ELSE schemaPath

\* validateJson(schemaPath) / addJsonSchema(schemaPath), builder f
schemaEvaluator(o, f, schemaPath, max) ==
  pushEvaluator(o, Evaluator(f, SchemaFile(schemaPath)), max)

\* TestCase.prototype.setAsserter
bindAsserter(o) ==
  /\ o \in Objects /\ options[o].kind = "TestCase"
  /\ ~options[o]._asserter
  /\ options' = [options EXCEPT ![o]._asserter = TRUE]
  /\ UNCHANGED <<ncases, tc, raised, trace, heap, config, sent, adapter>>

\* The options run() hands to http.request, the payload it writes, the
\* evaluators registered by then, and the schema files read so far for the
\* response.
RequestOf(o) ==
  LET url == RequestUrl(config.baseUrl, options[o]._url)
      headers == getHeaders(o)
  IN  [object |-> o,
       host |-> url.hostname,
       port |-> IF url.port # 0 THEN url.port
                ELSE IF url.protocol = "https:" THEN 443 ELSE 80,
       path |-> IF url.segs # <<>> THEN url.segs ELSE <<"">>,
       method |-> options[o]._httpMethod,
       headers |-> IF Falsy(headers["Content-Length"]) /\ options[o]._payload.null
                   THEN [headers EXCEPT !["Content-Length"] = JsNumber(0)]
                   ELSE headers,
       payload |-> options[o]._payload,
       evaluators |-> EvaluatorsOf(o),
       ended |-> FALSE,
       files |-> <<>>]

\* run() that sets the default Content-Length on the header map of the test
\* case itself, as it would were getHeaders() to return this._headers.
runOnOwnHeaders(o, max, maxThrows) ==
  /\ o \in Objects /\ options[o].kind = "TestCase"
  /\ Len(sent) < max
  /\ ~options[o]._asserter => Len(raised) < maxThrows
  /\ IF ~options[o]._asserter
     THEN /\ raised' = Append(raised, "No asserter object has been configured")
          /\ UNCHANGED <<sent, heap>>
     ELSE /\ sent' = Append(sent, RequestOf(o))
          /\ heap' = [heap EXCEPT !.headers[options[o]._headers]["Content-Length"] =
                        RequestOf(o).headers["Content-Length"]]
          /\ UNCHANGED raised
  /\ UNCHANGED <<ncases, tc, trace, options, config, adapter>>

\* TestCase.prototype.run
run(o, max, maxThrows) ==
  /\ o \in Objects /\ options[o].kind = "TestCase"
  /\ Len(sent) < max
  /\ ~options[o]._asserter => Len(raised) < maxThrows
  /\ IF ~options[o]._asserter
     THEN /\ raised' = Append(raised, "No asserter object has been configured")
          /\ UNCHANGED sent
     ELSE /\ sent' = Append(sent, RequestOf(o))
          /\ UNCHANGED raised
  /\ UNCHANGED <<ncases, tc, trace, options, heap, config, adapter>>

\* The files the evaluators es read, in order: fs.readFileSync(schemaPath) of
\* validateJson and addJsonSchema.
RECURSIVE FilesRead(_)
FilesRead(es) ==
  IF es = <<>> THEN <<>>
  ELSE (IF Head(es).fn \in {"validateJson", "addJsonSchema"}
        THEN <<Head(es).arg>> ELSE <<>>) \o FilesRead(Tail(es))

\* res.on('end'): _finalize calls every evaluator of the test case.
onResponseEnd(i) ==
  /\ i \in 1 .. Len(sent) /\ ~sent[i].ended
  /\ sent' = [sent EXCEPT ![i].ended = TRUE,
                          ![i].files = FilesRead(EvaluatorsOf(sent[i].object))]
  /\ UNCHANGED <<ncases, tc, raised, trace, options, heap, config, adapter>>

\* Specification SpecRun: test cases configured and run while the global
\* settings change.
RunObjects == 1
RunEvals == 1
RunRequests == 2
RunThrows == 1

BaseUrls ==
  {EmptyUrl,
   Url("http:", "some.other.url.com", 0, TRUE, <<"">>),
   Url("https:", "secure.host", 8443, TRUE, <<"api", "v1">>)}

CaseUrls ==
  {Url("", "", 0, TRUE, <<"base", "url">>),
   Url("", "", 0, FALSE, <<"sub">>),
   Url("http:", "falkor.fake", 0, TRUE, <<"jsonschema">>)}

RootSchemaPaths == {EmptyPath, Path(TRUE, <<"schemas">>), Path(FALSE, <<"test">>)}

SchemaPaths == {Path(FALSE, <<"schema.json">>), Path(TRUE, <<"abs", "schema.json">>)}

Globals ==
  \/ \E url \in BaseUrls : setBaseUrl(url)
  \/ \E path \in RootSchemaPaths : setRootSchemaPath(path)

NextRun ==
  \/ \E url \in CaseUrls : newTestCaseObject(url, RunObjects)
  \/ Globals
  \/ \E o \in Objects :
       \/ bindAsserter(o)
       \/ \E f \in {"validateJson", "addJsonSchema"}, schemaPath \in SchemaPaths :
            schemaEvaluator(o, f, schemaPath, RunEvals)
       \/ run(o, RunRequests, RunThrows)
  \/ \E i \in 1 .. Len(sent) : onResponseEnd(i)

SpecRun == Init /\ [][NextRun]_vars

\* ------------------------------------------------------ the callable adapter
\* The properties for (var key in testCase) visits: the fields the
\* constructors set, then the methods of TestCase.prototype and of
\* Options.prototype. charAt0 is key.charAt(0), function is whether
\* typeof testCase[key] == 'function'.
Key(name, charAt0, function) ==
  [name |-> name, charAt0 |-> charAt0, function |-> function]

TestCaseKeys ==
  <<Key("_headers", "_", FALSE), Key("_cookies", "_", FALSE),
    Key("_evaluators", "_", FALSE), Key("_url", "_", FALSE),
    Key("setAsserter", "s", TRUE), Key("toNodeUnitFn", "t", TRUE),
    Key("run", "r", TRUE), Key("_handleHttpResponse", "_", TRUE),
    Key("_finalize", "_", TRUE), Key("withMethod", "w", TRUE),
    Key("withHeader", "w", TRUE), Key("withCookie", "w", TRUE),
    Key("evaluate", "e", TRUE), Key("getHeaders", "g", TRUE),
    Key("_copy", "_", TRUE), Key("_fixSchema", "_", TRUE)>>

\* The methods toNodeUnitFn hangs on the function w it returns for the test
\* case o: fn[k] = function () { testCase[k].apply(testCase, arguments);
\* return fn } for every key that is public and a function. The anonymous
\* function seals k: each method applies its own key.
MirroredMethodsUnsealed(o, w) ==
  {[key |-> TestCaseKeys[i].name, apply |-> TestCaseKeys[Len(TestCaseKeys)].name,
    on |-> o, returns |-> w] :
     i \in {j \in DOMAIN TestCaseKeys :
              TestCaseKeys[j].charAt0 # "_" /\ TestCaseKeys[j].function}}

MirroredMethods(o, w) ==
  {[key |-> TestCaseKeys[i].name, apply |-> TestCaseKeys[i].name,
    on |-> o, returns |-> w] :
     i \in {j \in DOMAIN TestCaseKeys :
              TestCaseKeys[j].charAt0 # "_" /\ TestCaseKeys[j].function}}

Fns == 1 .. Len(heap.fns)

\* TestCase.prototype.toNodeUnitFn on the test case o: the function object
\* allocated, with the test case its closure keeps.
toNodeUnitFn(o) ==
  [testCase |-> o, methods |-> MirroredMethods(o, Len(heap.fns) + 1)]

\* createNodeUnitTestFn(url): new TestCase(url).toNodeUnitFn()
createNodeUnitTestFn(url, max) ==
  /\ Len(options) < max
  /\ options' = Append(options, NewOptions("TestCase", url))
  /\ heap' = [AllocOptions EXCEPT
                !.fns = Append(@, toNodeUnitFn(Len(options) + 1))]
  /\ UNCHANGED <<ncases, tc, raised, trace, config, sent, adapter>>

\* testCase[k](a, b) on the instance o, for the methods called here.
Method(o, k, a, b, max) ==
  \/ k = "withHeader" /\ withHeader(o, a, b)
  \/ k = "withCookie" /\ withCookie(o, a, b)
  \/ k = "withMethod" /\ withMethod(o, a)
  \/ k = "evaluate" /\ pushEvaluator(o, a, max.evals)
  \/ k = "setAsserter" /\ bindAsserter(o)
  \/ k = "run" /\ run(o, max.requests, max.throws)

\* fn[k](a, b) on the function w: the mirrored method if there is one, a
\* TypeError (fn[k] is undefined) otherwise.
fnMethod(w, k, a, b, max) ==
  /\ w \in Fns
  /\ LET ms == {m \in heap.fns[w].methods : m.key = k}
     IN  IF ms = {}
         THEN /\ Len(raised) < max.throws
              /\ raised' = Append(raised, "TypeError: undefined is not a function")
              /\ UNCHANGED <<ncases, tc, trace, options, heap, config, sent,
                             adapter>>
         ELSE \E m \in ms : Method(m.on, m.apply, a, b, max)

\* fn(test): testCase.setAsserter(test); testCase.run()
fnTest(w, max) ==
  /\ w \in Fns
  /\ Len(sent) < max.requests
  /\ LET o == heap.fns[w].testCase
     IN  /\ options' = [options EXCEPT ![o]._asserter = TRUE]
         /\ sent' = Append(sent, RequestOf(o))
  /\ UNCHANGED <<ncases, tc, raised, trace, heap, config, adapter>>

\* Specification SpecAdapter: one test case held as an instance, one held as
\* the function createNodeUnitTestFn returned, each configured and run through
\* what the caller holds.
AdapterObjects == 2
AdapterEvals == 1
AdapterRequests == 1
AdapterThrows == 1

AdapterBounds ==
  [evals |-> AdapterEvals, requests |-> AdapterRequests,
   throws |-> AdapterThrows]

AdapterUrl == Url("http:", "falkor.fake", 0, TRUE, <<"one">>)

PublicKeys == {"withHeader", "withCookie", "withMethod", "evaluate", "setAsserter"}

Arguments(k) ==
  CASE k = "withHeader" -> {<<"Test-Header", JsString("1234")>>}
    [] k = "withCookie" -> {<<"a", JsString("1")>>}
    [] k = "withMethod" -> {<<PUT, "">>}
    [] k = "evaluate" -> {<<UserEvaluator, "">>}
    [] OTHER -> {<<"", "">>}

Wrapped == {heap.fns[w].testCase : w \in Fns}

NextAdapter ==
  \/ newTestCaseObject(AdapterUrl, AdapterObjects)
  \/ createNodeUnitTestFn(AdapterUrl, AdapterObjects)
  \/ \E o \in Objects \ Wrapped, k \in PublicKeys \cup {"run"} :
       \E args \in Arguments(k) : Method(o, k, args[1], args[2], AdapterBounds)
  \/ \E w \in Fns, k \in PublicKeys \cup {"_finalize"} :
       \E args \in Arguments(k) : fnMethod(w, k, args[1], args[2], AdapterBounds)
  \/ \E w \in Fns : fnTest(w, AdapterBounds)

SpecAdapter == Init /\ [][NextAdapter]_vars

\* ------------------------------------------------------ evaluators at work
\* A JavaScript value as JSON.parse gives it: t is its kind, s, n and b the
\* string, the number or the boolean it is, members the properties of an
\* object in the order for-in visits them (the items of an array under the
\* keys "0", "1", ...). A RegExp keeps its source in s.
JsValue(t, s, n, b, members) ==
  [t |-> t, s |-> s, n |-> n, b |-> b, members |-> members]

JsonUndefined == JsValue("undefined", "", 0, FALSE, <<>>)

JsonString(s) == JsValue("string", s, 0, FALSE, <<>>)

JsonNumber(n) == JsValue("number", "", n, FALSE, <<>>)

JsonBoolean(b) == JsValue("boolean", "", 0, b, <<>>)

Member(key, value) == [key |-> key, value |-> value]

JsonObject(members) == JsValue("object", "", 0, FALSE, members)

JsonArray(items) ==
  JsValue("array", "", 0, FALSE,
          [i \in 1 .. Len(items) |-> Member(<<"0", "1", "2">>[i], items[i])])

RegExp(source) == JsValue("regexp", source, 0, FALSE, <<>>)

\* !v
JsonFalsy(v) ==
  \/ v.t = "undefined"
  \/ v.t = "string" /\ v.s = ""
  \/ v.t = "number" /\ v.n = 0
  \/ v.t = "boolean" /\ ~v.b

\* typeof v === 'object'
IsObject(v) == v.t \in {"object", "array", "regexp"}

\* v[key]
Get(v, key) ==
  IF \E i \in 1 .. Len(v.members) : v.members[i].key = key
  THEN v.members[CHOOSE i \in 1 .. Len(v.members) : v.members[i].key = key].value
  ELSE JsonUndefined

\* v[key] = value on the properties ms: a new key comes last, a known key
\* keeps its place.
RECURSIVE SetMember(_, _, _)
SetMember(ms, key, value) ==
  IF ms = <<>> THEN <<Member(key, value)>>
  ELSE IF Head(ms).key = key THEN <<Member(key, value)>> \o Tail(ms)
       ELSE <<Head(ms)>> \o SetMember(Tail(ms), key, value)

\* s.substr(from, n) and s.substr(from), from counted from 0.
Substr(s, from, n) ==
  SubSeq(s, from + 1, IF from + n < Len(s) THEN from + n ELSE Len(s))

SubstrFrom(s, from) == SubSeq(s, from + 1, Len(s))

\* The number a string of digits denotes.
RECURSIVE Decimal(_)
Decimal(cs) ==
  IF cs = <<>> THEN 0 ELSE 10 * Decimal(SubSeq(cs, 1, Len(cs) - 1)) + (cs[Len(cs)] - 48)

InvalidJson == [ok |-> FALSE, value |-> JsonUndefined]

ValidJson(v) == [ok |-> TRUE, value |-> v]

\* JSON.parse(cs) on the texts used here: a number written in digits, {},
\* {"k":value} with a one-letter key, [] and [value]. ok is false where
\* JSON.parse throws a SyntaxError.
RECURSIVE JsonParse(_)
JsonParse(cs) ==
  IF cs = <<>> THEN InvalidJson
  ELSE IF \A i \in 1 .. Len(cs) : cs[i] \in 48 .. 57
  THEN IF Len(cs) > 1 /\ cs[1] = 48 THEN InvalidJson
       ELSE ValidJson(JsonNumber(Decimal(cs)))
  ELSE IF cs = <<123, 125>> THEN ValidJson(JsonObject(<<>>))
  ELSE IF cs = <<91, 93>> THEN ValidJson(JsonArray(<<>>))
  ELSE IF Len(cs) > 2 /\ cs[1] = 91 /\ cs[Len(cs)] = 93
  THEN LET item == JsonParse(SubSeq(cs, 2, Len(cs) - 1))
       IN  IF item.ok THEN ValidJson(JsonArray(<<item.value>>)) ELSE InvalidJson
  ELSE IF /\ Len(cs) > 6 /\ cs[1] = 123 /\ cs[2] = 34 /\ cs[3] \in 97 .. 122
          /\ cs[4] = 34 /\ cs[5] = 58 /\ cs[Len(cs)] = 125
  THEN LET value == JsonParse(SubSeq(cs, 6, Len(cs) - 1))
           key == <<"a", "b", "c">>[cs[3] - 96]
       IN  IF value.ok /\ cs[3] \in 97 .. 99
           THEN ValidJson(JsonObject(<<Member(key, value.value)>>))
           ELSE InvalidJson
  ELSE InvalidJson

\* The patterns new RegExp(source) throws a SyntaxError for.
BadPatterns == {"[", "("}

\* String(v), the source new RegExp(v) compiles.
Source(v) == IF v.t \in {"string", "regexp"} THEN v.s ELSE "[object Object]"

\* Options.prototype._fixSchema(test, schema, ignoreSpecialKeys), from the
\* i-th key of schema on: ok is what it returns, schema the object as it has
\* rewritten it, calls what it has called on test.
RECURSIVE FixSchemaFrom(_, _, _)

\* Variant that treats the keys of a properties map as keywords.
FixSchemaFromFlat(schema, i, ignoreSpecialKeys) ==
  IF i > Len(schema.members)
  THEN [ok |-> TRUE, schema |-> schema, calls |-> <<>>]
  ELSE
    LET key == schema.members[i].key
        value == schema.members[i].value
    IN  IF ~ignoreSpecialKeys /\ key = "pattern"
        THEN IF Source(value) \in BadPatterns
             THEN [ok |-> FALSE, schema |-> schema,
                   calls |-> <<[op |-> "fail", passes |-> FALSE,
                                message |-> "Unable to create a regular expression for pattern",
                                errors |-> <<>>]>>]
             ELSE FixSchemaFrom(
                    [schema EXCEPT !.members[i].value = RegExp(Source(value))],
                    i + 1, ignoreSpecialKeys)
        ELSE IF ~ignoreSpecialKeys /\ key = "required"
        THEN FixSchemaFrom(
               [schema EXCEPT !.members =
                  SetMember(@, "optional", JsonBoolean(JsonFalsy(value)))],
               i + 1, ignoreSpecialKeys)
        ELSE IF IsObject(value)
        THEN LET ignoreSpecialKeysNextTime == FALSE
                 sub == FixSchemaFrom(value, 1, ignoreSpecialKeysNextTime)
                 fixed == [schema EXCEPT !.members[i].value = sub.schema]
             IN  IF ~sub.ok
                 THEN [ok |-> FALSE, schema |-> fixed, calls |-> sub.calls]
                 ELSE FixSchemaFrom(fixed, i + 1, ignoreSpecialKeys)
        ELSE FixSchemaFrom(schema, i + 1, ignoreSpecialKeys)

FixSchemaFrom(schema, i, ignoreSpecialKeys) ==
  IF i > Len(schema.members)
  THEN [ok |-> TRUE, schema |-> schema, calls |-> <<>>]
  ELSE
    LET key == schema.members[i].key
        value == schema.members[i].value
    IN  IF ~ignoreSpecialKeys /\ key = "pattern"
        THEN IF Source(value) \in BadPatterns
             THEN [ok |-> FALSE, schema |-> schema,
                   calls |-> <<[op |-> "fail", passes |-> FALSE,
                                message |-> "Unable to create a regular expression for pattern",
                                errors |-> <<>>]>>]
             ELSE FixSchemaFrom(
                    [schema EXCEPT !.members[i].value = RegExp(Source(value))],
                    i + 1, ignoreSpecialKeys)
        ELSE IF ~ignoreSpecialKeys /\ key = "required"
        THEN FixSchemaFrom(
               [schema EXCEPT !.members =
                  SetMember(@, "optional", JsonBoolean(JsonFalsy(value)))],
               i + 1, ignoreSpecialKeys)
        ELSE IF IsObject(value)
        THEN LET ignoreSpecialKeysNextTime ==
                   ~ignoreSpecialKeys /\ key = "properties"
                 sub == FixSchemaFrom(value, 1, ignoreSpecialKeysNextTime)
                 fixed == [schema EXCEPT !.members[i].value = sub.schema]
             IN  IF ~sub.ok
                 THEN [ok |-> FALSE, schema |-> fixed, calls |-> sub.calls]
                 ELSE FixSchemaFrom(fixed, i + 1, ignoreSpecialKeys)
        ELSE FixSchemaFrom(schema, i + 1, ignoreSpecialKeys)

_fixSchema(schema, ignoreSpecialKeys) ==
  FixSchemaFrom(schema, 1, ignoreSpecialKeys)

\* typeof of the schema vocabulary.
TypeOf(v) == v.t

\* validator.validate(json, schema) of the json-schema library: the errors,
\* in order. The type is compared, and every property the schema lists must
\* be there unless its schema says optional: true.
RECURSIVE Validate(_, _, _), ValidateProperties(_, _, _, _)
Validate(json, schema, path) ==
  (IF Get(schema, "type").t = "string" /\ Get(schema, "type").s # TypeOf(json)
   THEN <<[path |-> path, message |-> "type"]>> ELSE <<>>)
  \o (IF json.t = "object" /\ Get(schema, "properties").t = "object"
      THEN ValidateProperties(json, Get(schema, "properties").members, 1, path)
      ELSE <<>>)

ValidateProperties(json, properties, i, path) ==
  IF i > Len(properties) THEN <<>>
  ELSE
    LET key == properties[i].key
        value == Get(json, key)
    IN  (IF value.t = "undefined"
         THEN IF Get(properties[i].value, "optional") = JsonBoolean(TRUE)
              THEN <<>>
              ELSE <<[path |-> path \o "/" \o key, message |-> "missing"]>>
         ELSE Validate(value, properties[i].value, path \o "/" \o key))
        \o ValidateProperties(json, properties, i + 1, path)

\* What fs.readFileSync(path) and JSON.parse of its text give for the files
\* of the disk, by file name: readable is false where readFileSync throws,
\* json.ok false where JSON.parse throws.
File(readable, json) == [readable |-> readable, json |-> json]

ItemSchema ==
  JsonObject(<<Member("id", JsonString("item")),
               Member("type", JsonString("object")),
               Member("properties", JsonObject(<<
                 Member("a", JsonObject(<<Member("type", JsonString("number")),
                                          Member("required", JsonBoolean(TRUE))>>)),
                 Member("b", JsonObject(<<Member("type", JsonString("string")),
                                          Member("pattern", JsonString("^b")),
                                          Member("required", JsonBoolean(FALSE))>>))>>))>>)

StrictSchema ==
  JsonObject(<<Member("id", JsonString("strict")),
               Member("type", JsonString("object")),
               Member("properties", JsonObject(<<
                 Member("a", JsonObject(<<Member("type", JsonString("object")),
                                          Member("required", JsonBoolean(TRUE))>>)),
                 Member("c", JsonObject(<<Member("required", JsonBoolean(TRUE))>>))>>))>>)

BadPatternSchema ==
  JsonObject(<<Member("id", JsonString("bad")),
               Member("properties", JsonObject(<<
                 Member("a", JsonObject(<<Member("pattern", JsonString("["))>>))>>))>>)

NoIdSchema == JsonObject(<<Member("type", JsonString("object"))>>)

\* A schema with properties named pattern and required.
KeysSchema ==
  JsonObject(<<Member("id", JsonString("keys")),
               Member("pattern", JsonString("^k")),
               Member("required", JsonBoolean(TRUE)),
               Member("properties", JsonObject(<<
                 Member("pattern", JsonObject(<<Member("type", JsonString("string")),
                                                Member("pattern", JsonString("^p")),
                                                Member("required", JsonBoolean(FALSE))>>)),
                 Member("required", JsonObject(<<
                   Member("required", JsonBoolean(TRUE)),
                   Member("properties", JsonObject(<<
                     Member("a", JsonObject(<<Member("pattern", JsonString("^a"))>>))>>))>>))>>)),
               Member("items", JsonObject(<<Member("pattern", JsonString("^i"))>>))>>)

Disk(path) ==
  LET name == IF path.segs = <<>> THEN "" ELSE path.segs[Len(path.segs)]
  IN  CASE name = "schema.json" -> File(TRUE, ValidJson(ItemSchema))
        [] name = "strict.json" -> File(TRUE, ValidJson(StrictSchema))
        [] name = "pattern.json" -> File(TRUE, ValidJson(BadPatternSchema))
        [] name = "noid.json" -> File(TRUE, ValidJson(NoIdSchema))
        [] name = "keys.json" -> File(TRUE, ValidJson(KeysSchema))
        [] name = "invalid.json" -> File(TRUE, InvalidJson)
        [] name = "array.json" ->
             File(TRUE, ValidJson(JsonArray(<<ItemSchema, NoIdSchema, StrictSchema>>)))
        [] name = "mixed.json" ->
             File(TRUE, ValidJson(JsonArray(<<BadPatternSchema, StrictSchema>>)))
        [] OTHER -> File(FALSE, InvalidJson)

\* test.fail(message), and what an evaluator gives back: the calls it made on
\* the asserter, in order, and this._jsonSchema as it leaves it.
TestFail(message) ==
  [op |-> "fail", passes |-> FALSE, message |-> message, errors |-> <<>>]

Evaluated(calls, jsonSchema) == [calls |-> calls, jsonSchema |-> jsonSchema]

\* this._jsonSchema[id] = schema, the map kept as the set of its entries.
Register(jsonSchema, id, schema) ==
  {e \in jsonSchema : e.id # id} \cup {[id |-> id, schema |-> schema]}

\* The evaluator of expectXssiPrefix(prefix).
expectXssiPrefixEvaluator(prefix, res) ==
  IF res.body # <<>>
  THEN <<[op |-> "equals",
          passes |-> Substr(res.body, 0, Len(prefix)) = prefix,
          message |-> "Expected XSSI prefix at beginning of response body.",
          errors |-> <<>>]>>
  ELSE <<TestFail("Expected XSSI prefix but response was empty.")>>

\* The text validateJson hands to JSON.parse.
StrippedBodyKeepsPrefix(xssiPrefix, res) == res.body

StrippedBody(xssiPrefix, res) ==
  IF Len(xssiPrefix) > 0 THEN SubstrFrom(res.body, Len(xssiPrefix))
  ELSE res.body

\* validateJson going on after a failure instead of returning.
validateJsonEvaluatorFallsThrough(xssiPrefix, schemaPath, res) ==
  LET file == Disk(schemaPath)
      fixed == _fixSchema(file.json.value, FALSE)
      json == JsonParse(StrippedBody(xssiPrefix, res))
  IN  (IF ~file.readable
       THEN <<TestFail("Invalid JSON Schema. Unable to open file")>> ELSE <<>>)
      \o (IF ~file.json.ok
          THEN <<TestFail("Invalid JSON Schema. JSON parsing failed.")>>
          ELSE fixed.calls)
      \o (IF res.body = <<>>
          THEN <<TestFail("Expected response body for JSON validation.")>>
          ELSE <<>>)
      \o (IF ~json.ok
          THEN <<TestFail("Invalid response body. JSON parsing failed.")>>
          ELSE <<>>)

\* The evaluator of validateJson(schemaPath), run on the option set whose
\* _xssiPrefix is xssiPrefix.
validateJsonEvaluator(xssiPrefix, schemaPath, res) ==
  LET file == Disk(schemaPath)
      fixed == _fixSchema(file.json.value, FALSE)
      json == JsonParse(StrippedBody(xssiPrefix, res))
      errors == Validate(json.value, fixed.schema, "")
  IN  IF ~file.readable
      THEN <<TestFail("Invalid JSON Schema. Unable to open file")>>
      ELSE IF ~file.json.ok
      THEN <<TestFail("Invalid JSON Schema. JSON parsing failed.")>>
      ELSE IF ~fixed.ok THEN fixed.calls
      ELSE IF res.body = <<>>
      THEN <<TestFail("Expected response body for JSON validation.")>>
      ELSE IF ~json.ok
      THEN <<TestFail("Invalid response body. JSON parsing failed.")>>
      ELSE IF Len(errors) > 0
      THEN <<[op |-> "fail", passes |-> FALSE,
              message |-> "Invalid response body. JSON Schema validation failed.",
              errors |-> errors]>>
      ELSE <<>>

\* The loop of addJsonSchema over schemata, from the i-th on.
RECURSIVE AddSchemata(_, _, _)

\* Variant that registers the schema whatever _fixSchema returns.
AddSchemataUnchecked(schemata, i, jsonSchema) ==
  IF i > Len(schemata) THEN Evaluated(<<>>, jsonSchema)
  ELSE
    LET schema == schemata[i]
        fixed == _fixSchema(schema, FALSE)
        rest == AddSchemata(schemata, i + 1,
                            Register(jsonSchema, Get(schema, "id").s,
                                     fixed.schema))
    IN  IF JsonFalsy(Get(schema, "id"))
        THEN Evaluated(<<TestFail("JSON schema must have an id before calling addJsonSchema")>>,
                       jsonSchema)
        ELSE Evaluated(fixed.calls \o rest.calls, rest.jsonSchema)

AddSchemata(schemata, i, jsonSchema) ==
  IF i > Len(schemata) THEN Evaluated(<<>>, jsonSchema)
  ELSE
    LET schema == schemata[i]
        fixed == _fixSchema(schema, FALSE)
        rest == AddSchemata(schemata, i + 1,
                            IF fixed.ok
                            THEN Register(jsonSchema, Get(schema, "id").s,
                                          fixed.schema)
                            ELSE jsonSchema)
    IN  IF JsonFalsy(Get(schema, "id"))
        THEN Evaluated(<<TestFail("JSON schema must have an id before calling addJsonSchema")>>,
                       jsonSchema)
        ELSE Evaluated(fixed.calls \o rest.calls, rest.jsonSchema)

\* The evaluator of addJsonSchema(schemaPath).
addJsonSchemaEvaluator(jsonSchema, schemaPath) ==
  LET file == Disk(schemaPath)
      schemata == IF file.json.value.t = "array"
                  THEN [i \in 1 .. Len(file.json.value.members) |->
                          file.json.value.members[i].value]
                  ELSE <<file.json.value>>
  IN  IF ~file.readable
      THEN Evaluated(<<TestFail("Invalid JSON File. Unable to open file")>>,
                     jsonSchema)
      ELSE IF ~file.json.ok
      THEN Evaluated(<<TestFail("Invalid JSON File. JSON parsing failed.")>>,
                     jsonSchema)
      ELSE AddSchemata(schemata, 1, jsonSchema)

\* this._evaluators[i].call(this, this._asserter, res): the evaluator ev of
\* the option set o, with jsonSchema what this._jsonSchema holds by now.
Evaluate(ev, o, jsonSchema, res) ==
  CASE ev.fn = "expectXssiPrefix" ->
         Evaluated(expectXssiPrefixEvaluator(ev.arg, res), jsonSchema)
    [] ev.fn = "validateJson" ->
         Evaluated(validateJsonEvaluator(options[o]._xssiPrefix, ev.arg, res),
                   jsonSchema)
    [] ev.fn = "addJsonSchema" -> addJsonSchemaEvaluator(jsonSchema, ev.arg)
    [] OTHER -> Evaluated(<<>>, jsonSchema)

\* The loop of _finalize over the evaluators es of o, from the i-th on: every
\* call on the asserter, with the evaluator that made it.
RECURSIVE RunEvaluators(_, _, _, _, _)
RunEvaluators(es, i, o, jsonSchema, res) ==
  IF i > Len(es) THEN Evaluated(<<>>, jsonSchema)
  ELSE
    LET one == Evaluate(es[i], o, jsonSchema, res)
        rest == RunEvaluators(es, i + 1, o, one.jsonSchema, res)
    IN  Evaluated([c \in 1 .. Len(one.calls) |->
                     [ev |-> one.calls[c].op, tc |-> o, by |-> i,
                      call |-> one.calls[c]]] \o rest.calls,
                  rest.jsonSchema)

\* res.on('end') of TestCase.prototype._handleHttpResponse, data being what
\* the 'data' events added up to: if (data) res.body = data, then _finalize
\* runs every evaluator of this._evaluators (ran) and calls done().
handleHttpResponseEnd(i, data) ==
  /\ i \in 1 .. Len(sent) /\ ~sent[i].ended
  /\ LET o == sent[i].object
         res == [body |-> data]
         result == RunEvaluators(EvaluatorsOf(o), 1, o, SchemaOf(o), res)
     IN  /\ trace' = trace \o result.calls
                       \o <<[ev |-> "done", tc |-> o, by |-> 0, body |-> data,
                             ran |-> EvaluatorsOf(o)]>>
         /\ heap' = [heap EXCEPT !.schema[options[o]._jsonSchema] = result.jsonSchema]
  /\ sent' = [sent EXCEPT ![i].ended = TRUE,
                          ![i].files = FilesRead(EvaluatorsOf(sent[i].object))]
  /\ UNCHANGED <<ncases, tc, raised, options, config, adapter>>

\* Specification SpecShare: templates, their clones, test cases made with
\* new TestCase or from a template, given addJsonSchema evaluators and run.
ShareObjects == 3
ShareEvals == 1
ShareRequests == 2
ShareThrows == 1

NextShare ==
  \/ newTestTemplate(ShareObjects)
  \/ newTestCaseObject(AdapterUrl, ShareObjects)
  \/ \E t \in Objects : newTestCase(t, "/one", ShareThrows)
  \/ \E t \in Objects : clone(t, ShareObjects)
  \/ \E o \in Objects :
       \/ bindAsserter(o)
       \/ \E name \in {"schema.json", "strict.json"} :
            schemaEvaluator(o, "addJsonSchema", Path(FALSE, <<name>>), ShareEvals)
       \/ run(o, ShareRequests, 0)
  \/ \E i \in 1 .. Len(sent) : handleHttpResponseEnd(i, <<>>)

SpecShare == Init /\ [][NextShare]_vars

\* Specification SpecAppend: test cases given evaluators and expectations of
\* every kind, between other builder calls.
AppendObjects == 2
AppendEvals == 2
ExpectedCodes == {200, 404}

NextAppend ==
  \/ newTestCaseObject(AdapterUrl, AppendObjects)
  \/ \E o \in Objects :
       \/ pushEvaluator(o, UserEvaluator, AppendEvals)
       \/ \E statusCode \in ExpectedCodes : expectStatusCode(o, statusCode, AppendEvals)
       \/ expectXssiPrefix(o, XssiPrefix, AppendEvals)
       \/ \E f \in {"validateJson", "addJsonSchema"} :
            schemaEvaluator(o, f, Path(FALSE, <<"schema.json">>), AppendEvals)
       \/ withHeader(o, "Test-Header", JsString("1234"))
       \/ withMethod(o, PUT)

SpecAppend == Init /\ [][NextAppend]_vars

\* Specification SpecSend: one test case configured before and after its
\* request is sent, and its response evaluated.
SendObjects == 1
SendEvals == 2
SendRequests == 1

NextSend ==
  \/ newTestCaseObject(AdapterUrl, SendObjects)
  \/ \E o \in Objects :
       \/ bindAsserter(o)
       \/ withHeader(o, "Test-Header", JsString("1234"))
       \/ withMethod(o, PUT)
       \/ withCookie(o, "username", JsString("dan"))
       \/ withPayload(o, StringPayload(Data))
       \/ pushEvaluator(o, UserEvaluator, SendEvals)
       \/ run(o, SendRequests, 0)
  \/ \E i \in 1 .. Len(sent) : handleHttpResponseEnd(i, <<>>)

SpecSend == Init /\ [][NextSend]_vars

\* Specification SpecEvaluate: one test case given evaluators, run, and its
\* response evaluated.
EvaluateObjects == 1
EvaluateEvals == 2
EvaluateRequests == 1

\* ")]}" and the response bodies: nothing, 1, {}, {"a":1}, {"a":{}}, x and
\* each of them after the prefix.
ShortPrefix == <<41, 93, 125>>

JsonTexts ==
  {<<49>>, <<123, 125>>, <<123, 34, 97, 34, 58, 49, 125>>,
   <<123, 34, 97, 34, 58, 123, 125, 125>>, <<120>>}

Bodies ==
  {<<>>, ShortPrefix} \cup JsonTexts \cup {ShortPrefix \o text : text \in JsonTexts}

SchemaFiles ==
  {Path(FALSE, <<name>>) :
     name \in {"schema.json", "strict.json", "pattern.json", "noid.json",
               "invalid.json", "array.json", "mixed.json", "keys.json",
               "missing.json"}}

NextEvaluate ==
  \/ newTestCaseObject(AdapterUrl, EvaluateObjects)
  \/ \E o \in Objects :
       \/ bindAsserter(o)
       \/ expectXssiPrefix(o, ShortPrefix, EvaluateEvals)
       \/ \E f \in {"validateJson", "addJsonSchema"}, schemaPath \in SchemaFiles :
            schemaEvaluator(o, f, schemaPath, EvaluateEvals)
       \/ run(o, EvaluateRequests, 0)
  \/ \E i \in 1 .. Len(sent), data \in Bodies : handleHttpResponseEnd(i, data)

SpecEvaluate == Init /\ [][NextEvaluate]_vars

\* ------------------------------------------------------------- observations
\* What the asserter sees: a failed assertion of an evaluator, test.fail and
\* test.done.
IsAsserterCall(e) ==
  \/ e.ev \in {"fail", "done"}
  \/ e.ev = "evaluator" /\ e.out = "fail"

AsserterCalls == SelectSeq(trace, IsAsserterCall)
IsDone(e) == e.ev = "done"
DoneCalls == SelectSeq(trace, IsDone)
IsFail(e) == e.ev = "fail"
FailCalls == SelectSeq(trace, IsFail)

\* The calls of the evaluators and of the continuations of test case c.
EvalEvents(c) == SelectSeq(trace, LAMBDA e : e.ev = "evaluator" /\ e.tc = c)
ThenEvents(c) == SelectSeq(trace, LAMBDA e : e.ev = "then" /\ e.tc = c)
EvalIds(c) == [x \in 1 .. Len(EvalEvents(c)) |-> EvalEvents(c)[x].id]

IsPrefix(s, t) ==
  /\ Len(s) <= Len(t)
  /\ \A x \in 1 .. Len(s) : s[x] = t[x]

\* The continuations the user registered on c (the resolve function Q pushes
\* is not one of them).
UserConts(c) == SelectSeq(tc[c].fin.conts, LAMBDA f : f.kind = "user")

IsRequestFailure(v) == v.t = "Request for <url> failed. <message>"

\* The promise continuation id of c returned has been resolved / rejected.
SettledWith(c, id, kind) ==
  \E x \in 1 .. Len(trace) :
    /\ trace[x].ev = "settled" /\ trace[x].tc = c /\ trace[x].id = id
    /\ trace[x].arg.t = kind

\* The run was started and nothing is left to happen: no handler is ready,
\* every request sent has got its whole response or its error, and no chain
\* waits for a promise a continuation returned.
AtRest ==
  /\ tc[1].done # "no"
  /\ Quiet
  /\ \A c \in 1 .. ncases : tc[c].req \in {"ended", "failed"}
  /\ \A c \in 1 .. ncases :
       ~(tc[c].fin.st = "waiting" /\ tc[c].fin.wait = "deferred")
  /\ \A c \in 1 .. ncases : ~TimerRunning(c)

NoRequestError == \A c \in 1 .. ncases : tc[c].error = ""

\* Test case j has completed: its response has ended, every evaluator and
\* every continuation of it has been called, every promise its continuations
\* returned is resolved, and every test case they returned has completed.
RECURSIVE Completed(_)
Completed(j) ==
  /\ tc[j].req = "ended"
  /\ Len(EvalEvents(j)) = Len(tc[j].fin.evs)
  /\ \A x \in 1 .. Len(EvalEvents(j)) : EvalEvents(j)[x].out # "throw"
  /\ Len(ThenEvents(j)) = Len(UserConts(j))
  /\ \A x \in 1 .. Len(ThenEvents(j)) :
       LET e == ThenEvents(j)[x] IN
         /\ e.out # "throw"
         /\ e.out = "deferred" => SettledWith(j, e.id, "resolved")
         /\ e.sub # 0 => Completed(e.sub)

\* The value test case j resolves to: the response, or what its last
\* continuation produced.
RECURSIVE Produced(_)
Produced(j) ==
  IF ThenEvents(j) = <<>> THEN Res(j)
  ELSE LET e == ThenEvents(j)[Len(ThenEvents(j))] IN
         CASE e.out = "value" -> e.ret
           [] e.out = "deferred" -> Resolved(j, e.id)
           [] e.sub # 0 -> Produced(e.sub)
           [] OTHER -> Undefined

\* Test case j, run from a continuation, failed: its request, one of its
\* evaluators (by throwing) or one of its continuations.
NestedFailed(j) ==
  \/ tc[j].req = "failed"
  \/ \E x \in 1 .. Len(EvalEvents(j)) : EvalEvents(j)[x].out = "throw"
  \/ \E x \in 1 .. Len(ThenEvents(j)) :
       \/ ThenEvents(j)[x].out = "throw"
       \/ SettledWith(j, ThenEvents(j)[x].id, "rejection")

\* Continuation number x of c threw, or the promise it returned is rejected.
ContinuationFailed(c, x) ==
  /\ x \in 1 .. Len(ThenEvents(c))
  /\ \/ ThenEvents(c)[x].out = "throw"
     \/ SettledWith(c, ThenEvents(c)[x].id, "rejection")

\* ------------------------------------------------------------------ claims
\* C1: a run started through done() or the callable adapter calls done() on
\* the asserter at most once, whatever happens: evaluators pass or fail, the
\* request fails, a continuation throws or returns a promise that is
\* rejected, or the request emits 'error' and its response still ends.
C1_DoneAtMostOnce == Len(DoneCalls) <= 1

\* The request emitted 'error' while the body was received, the response
\* ended all the same, the chain ran to its end, and done() was called.
C1_Witness ==
  /\ tc[1].req = "ended" /\ tc[1].error # ""
  /\ tc[1].defer.st = "rejected" /\ IsRequestFailure(tc[1].defer.val)
  /\ tc[1].fin.st \in {"fulfilled", "rejected"}
  /\ tc[1].done = "called"

\* C2: no run is stuck: once every request has got its response or its
\* error and every promise returned by a continuation is settled, done() has
\* been called on the asserter.
C2_NeverStuck == AtRest => tc[1].done = "called"

\* C3: a request that fails before its response records one failure on the
\* asserter, naming the url and the message of the error, calls no evaluator
\* and no continuation, and then done() is called.
C3_RequestFailure ==
  tc[1].req = "failed" =>
    /\ \A x \in 1 .. Len(trace) : trace[x].ev \in {"fail", "done"}
    /\ Len(trace) <= 2
    /\ Len(trace) >= 1 =>
         /\ trace[1].ev = "fail" /\ trace[1].tc = 1
         /\ trace[1].on = tc[1].asserter
         /\ IsRequestFailure(trace[1].arg)
         /\ trace[1].arg.url = tc[1].url
         /\ trace[1].arg.msg = tc[1].error /\ tc[1].error # ""
    /\ Len(trace) = 2 =>
         /\ trace[2].ev = "done" /\ trace[2].tc = 1
         /\ trace[2].on = tc[1].asserter
    /\ Quiet => Len(trace) = 2

\* A test case with evaluators and continuations whose request failed with
\* the second kind of error, after done().
C3_Witness ==
  /\ tc[1].req = "failed" /\ tc[1].done = "called"
  /\ tc[1].error = ErrMessages[2]
  /\ Len(tc[1].evaluators) > 0 /\ Len(tc[1].chained) > 0

\* C4: the evaluators of a test case are called in the order of their
\* registration, however the body arrived, and all of them are called when
\* none throws.
C4_EvaluatorOrder ==
  \A c \in 1 .. ncases :
    /\ IsPrefix(EvalIds(c), tc[c].evaluators)
    /\ (/\ tc[c].fin.st \in {"fulfilled", "rejected"}
        /\ \A x \in 1 .. Len(EvalEvents(c)) : EvalEvents(c)[x].out # "throw")
         => EvalIds(c) = tc[c].evaluators

\* Two evaluators called on a response whose body came after an empty chunk
\* or in one piece.
C4_Witness ==
  /\ Len(EvalEvents(1)) = 2
  /\ EvalEvents(1)[1].id = 1 /\ EvalEvents(1)[2].id = 2
  /\ tc[1].body # <<>>

C6_ChainShortCircuit ==
  \A c \in 1 .. ncases : \A k \in 1 .. Len(ThenEvents(c)) :
    (NoRequestError /\ ContinuationFailed(c, k)) =>
      /\ Len(ThenEvents(c)) = k
      /\ Len(FailCalls) <= 1
      /\ AtRest =>
           /\ Len(FailCalls) = 1
           /\ FailCalls[1].arg \in {Thrown(c, ThenEvents(c)[k].id),
                                    Rejection(c, ThenEvents(c)[k].id)}
           /\ tc[1].done = "called"

\* C7: the first continuation gets the response; a later one gets what the
\* one before it returned, or what the promise it returned resolved to.
C7_ValueForwarding ==
  \A c \in 1 .. ncases : \A x \in 1 .. Len(ThenEvents(c)) :
    LET e == ThenEvents(c)[x] IN
      /\ e.pos = x
      /\ x = 1 => e.arg = Res(c)
      /\ x > 1 =>
           LET p == ThenEvents(c)[x - 1] IN
             /\ p.out = "value" => e.arg = p.ret
             /\ p.out = "deferred" =>
                  /\ e.arg = Resolved(c, p.id)
                  /\ SettledWith(c, p.id, "resolved")

\* The first continuation returned a promise, and the second one, which
\* returns a plain value, got the value that promise was resolved with.
C7_Witness ==
  /\ Len(ThenEvents(1)) = 2
  /\ ThenEvents(1)[1].out = "deferred"
  /\ ThenEvents(1)[2].arg = Resolved(1, 1)
  /\ ThenEvents(1)[2].out = "value"

\* C8: a test case returned by a continuation gets the asserter of the outer
\* one, and the next outer continuation is called only when the nested test
\* case has completed, with all it ran in turn; it gets the value the nested
\* test case resolved to.
C8_NestedBeforeNext ==
  \A c \in 1 .. ncases : \A x \in 2 .. Len(ThenEvents(c)) :
    LET p == ThenEvents(c)[x - 1] IN
      p.sub # 0 =>
        /\ tc[p.sub].asserter = tc[c].asserter
        /\ tc[c].asserter # NoAsserter
        /\ Completed(p.sub)
        /\ ThenEvents(c)[x].arg = Produced(p.sub)

\* The second continuation of the outermost test case was called after a
\* nested test case that itself ran a nested test case with an evaluator.
C8_Witness ==
  /\ Len(ThenEvents(1)) = 2
  /\ ThenEvents(1)[1].sub = 2
  /\ Len(ThenEvents(2)) = 1
  /\ ThenEvents(2)[1].sub = 3
  /\ Len(EvalEvents(3)) = 1
  /\ trace[Len(trace)] = ThenEvents(1)[2]

\* C9: a continuation may return a test case or its callable adapter, with
\* the same outcome: the next continuation gets the value the nested test
\* case resolved to, and when the nested test case fails, one failure is
\* recorded and done() is called.
C9_FormsInterchangeable ==
  /\ \A c \in 1 .. ncases : \A x \in 2 .. Len(ThenEvents(c)) :
       LET p == ThenEvents(c)[x - 1] IN
         p.sub # 0 => ThenEvents(c)[x].arg = Produced(p.sub)
  /\ \A j \in 2 .. ncases :
       (NestedFailed(j) /\ AtRest) =>
         /\ Len(FailCalls) = 1
         /\ Len(DoneCalls) = 1
         /\ tc[1].done = "called"

\* C10: a test case run from a continuation never calls done() itself.  The
\* failed assertion of its evaluator is recorded on the asserter of the
\* outermost run; when that is all that fails, the asserter sees that one
\* failure and then one done(), called by the outermost run when the whole
\* chain has completed.
C10_NestedNeverSignals ==
  /\ \A x \in 1 .. Len(trace) :
       /\ trace[x].ev \in {"fail", "done"} => trace[x].tc = 1
       /\ trace[x].ev = "evaluator" =>
            trace[x].on = tc[1].asserter /\ trace[x].on # NoAsserter
  /\ \A j \in 2 .. ncases : tc[j].done = "no"
  /\ (/\ NoRequestError
      /\ \A c \in 1 .. ncases : ~NestedFailed(c)
      /\ Len(AsserterCalls) >= 1
      /\ AsserterCalls[1].ev = "evaluator" /\ AsserterCalls[1].tc > 1
      /\ Len(SelectSeq(trace, LAMBDA e : e.ev = "evaluator" /\ e.out = "fail")) = 1)
       => /\ Len(AsserterCalls) <= 2
          /\ Len(AsserterCalls) = 2 =>
               /\ AsserterCalls[2].ev = "done"
               /\ Completed(1)
          /\ AtRest => Len(AsserterCalls) = 2

\* The evaluator of a nested test case recorded a failed assertion, and the
\* outermost run called done() after it.
C10_Witness ==
  /\ Len(AsserterCalls) = 2
  /\ AsserterCalls[1].ev = "evaluator" /\ AsserterCalls[1].tc = 2
  /\ AsserterCalls[2].ev = "done" /\ AsserterCalls[2].tc = 1
  /\ NoRequestError

\* C11: done() on a test case without an asserter throws to its caller at
\* once: no request is sent, nothing is recorded on any asserter, and the
\* configuration of the test case stays as it was.
C11_MissingAsserter ==
  [][raised' # raised =>
       /\ raised' = Append(raised, "Missing asserter")
       /\ tc'[1].asserter = NoAsserter
       /\ tc' = [tc EXCEPT ![1].asserter = NoAsserter]
       /\ tc'[1].req = "unsent" /\ tc'[1].done = "no"
       /\ trace' = trace /\ trace = <<>>]_vars

\* done() has thrown on a test case with an evaluator and a continuation.
C11_Witness ==
  /\ raised = <<"Missing asserter">>
  /\ tc[1].req = "unsent" /\ tc[1].asserter = NoAsserter
  /\ Len(tc[1].evaluators) > 0 /\ Len(tc[1].chained) > 0

\* C12: when the timer of a run with a timeout fires, the asserter gets one
\* failure, stating the duration, and then done(); nothing is recorded on
\* the asserter after that, although the request and the chain go on.
C12_TimeoutOneFailure ==
  tc[1].timedOut =>
    /\ Len(FailCalls) <= 1
    /\ Quiet => Len(FailCalls) = 1 /\ Len(DoneCalls) = 1
    /\ \A x \in 1 .. Len(trace) :
         trace[x].ev = "fail" =>
           /\ trace[x].arg = TimedOut(tc[1].timeoutMs)
           /\ \A y \in x + 1 .. Len(trace) :
                IsAsserterCall(trace[y]) => y = x + 1 /\ trace[y].ev = "done"

\* C13: getHeaders() returns every explicitly set header unchanged, the Cookie
\* header included whatever its value (the empty string too); it holds a
\* Cookie header made of the cookies exactly when no Cookie header was set
\* and at least one cookie is.
C13_CookieHeader ==
  \A o \in Objects :
    LET raw == HeadersOf(o)
        out == getHeaders(o)
        ck == CookiesOf(o)
    IN  /\ \A k \in HeaderKeys \ {"Cookie"} : out[k] = raw[k]
        /\ raw["Cookie"] # JsUndefined => out["Cookie"] = raw["Cookie"]
        /\ raw["Cookie"] = JsUndefined =>
             out["Cookie"] = IF Len(ck) > 0 THEN JsString(JoinCookies(ck))
                             ELSE JsUndefined

\* C14: newTestCase(url) on a template returns a new test case that starts
\* with the template's method, headers, cookies, payload, xssiPrefix and
\* evaluators; and no builder call changes the settings of more than one
\* option set, so a call on one test case changes neither the template nor a
\* sibling.
C14_TemplateCases ==
  [][/\ \A t \in Objects :
          newTestCase(t, "/one", TemplateThrows) =>
            /\ raised' = raised
            /\ Len(options') = Len(options) + 1
            /\ options'[Len(options')].kind = "TestCase"
            /\ SettingsIn(options', heap', Len(options')) =
                 [Settings(t) EXCEPT !.headers = getHeaders(t)]
     /\ \A o, p \in Objects :
          o # p => \/ SettingsIn(options', heap', o) = Settings(o)
                   \/ SettingsIn(options', heap', p) = Settings(p)]_vars

\* C15: clone() returns a new template whose headers, cookies, payload,
\* method, xssiPrefix and evaluators equal the parent's at that moment, leaving
\* every existing option set as it was; and no builder call changes the
\* settings of more than one option set, so calls on the clone never change
\* the parent, nor calls on the parent the clone.
C15_CloneEqualIndependent ==
  [][/\ \A t \in Objects :
          clone(t, TemplateObjects) =>
            /\ Len(options') = Len(options) + 1
            /\ options'[Len(options')].kind = "TestTemplate"
            /\ SettingsIn(options', heap', Len(options')) = Settings(t)
            /\ \A o \in Objects : SettingsIn(options', heap', o) = Settings(o)
     /\ \A o, p \in Objects :
          o # p => \/ SettingsIn(options', heap', o) = Settings(o)
                   \/ SettingsIn(options', heap', p) = Settings(p)]_vars

\* C16: an Asserter invokes its completion callback exactly once, at the
\* first fail() or done(); once it has, no call invokes the callback again
\* and no fail() records another error: a later fail() or done() changes
\* nothing.
C16_AsserterIdempotent ==
  /\ [](\A x \in AsserterObjects :
          Len(adapter[x]._callback) = IF adapter[x]._finished THEN 1 ELSE 0)
  /\ [][\A x \in AsserterObjects :
          /\ adapter[x]._finished =>
               /\ adapter'[x]._finished
               /\ adapter'[x]._callback = adapter[x]._callback
               /\ \A m \in Messages :
                    adapter'[x]._errors # Append(adapter[x]._errors, m)
          /\ \A m \in Messages :
               asserterFail(x, m) =>
                 adapter'[x] = IF adapter[x]._finished THEN adapter[x]
                               ELSE [_finished |-> TRUE,
                                     _errors |-> Append(adapter[x]._errors, m),
                                     _callback |->
                                       <<Append(adapter[x]._errors, m)>>]
          /\ asserterDone(x) =>
               adapter'[x] = IF adapter[x]._finished THEN adapter[x]
                             ELSE [_finished |-> TRUE,
                                   _errors |-> adapter[x]._errors,
                                   _callback |-> <<adapter[x]._errors>>]]_vars

\* One asserter finished by fail() and one by done(), each with one callback
\* invocation; the first has recorded a failed assertion since.
C16_Witness ==
  /\ Len(adapter) = 2
  /\ adapter[1]._finished /\ adapter[1]._callback = <<<<"expected 200">>>>
  /\ adapter[1]._errors = <<"expected 200", AssertionError>>
  /\ adapter[2]._finished /\ adapter[2]._callback = <<<<>>>>

\* C17: the request run() issues goes to a target computed from the base URL
\* in force at that call: a url with a protocol goes to its own host and path
\* whatever the base URL, a relative url goes to the host of the base URL with
\* its path resolved against the path of the base URL, and with an empty base
\* URL the url is used as it is; a request once issued keeps its target when
\* the base URL changes.
C17_TargetAtExecution ==
  [][/\ \A o \in Objects :
          run(o, RunRequests, RunThrows) /\ options[o]._asserter =>
            LET r == sent'[Len(sent')]
                url == options[o]._url
                base == config.baseUrl
                from == IF url.protocol = "" /\ base # EmptyUrl THEN base ELSE url
            IN  /\ Len(sent') = Len(sent) + 1
                /\ r.object = o
                /\ r.host = from.hostname
                /\ r.port = IF from.port # 0 THEN from.port
                            ELSE IF from.protocol = "https:" THEN 443 ELSE 80
                /\ r.path = IF url.protocol # "" \/ base = EmptyUrl \/ url.rooted
                            THEN url.segs
                            ELSE Front(base.segs) \o url.segs
     /\ \A i \in 1 .. Len(sent) :
          /\ Len(sent') >= Len(sent)
          /\ sent'[i].host = sent[i].host
          /\ sent'[i].port = sent[i].port
          /\ sent'[i].path = sent[i].path]_vars

\* One test case with a relative url, run twice, has sent its two requests to
\* different hosts: the base URL changed between the runs.
C17_Witness ==
  /\ Len(sent) = 2
  /\ sent[1].object = sent[2].object
  /\ options[sent[1].object]._url.protocol = ""
  /\ sent[1].host = "some.other.url.com" /\ sent[1].port = 80
  /\ sent[2].host = "secure.host" /\ sent[2].port = 8443
  /\ config.baseUrl = EmptyUrl

\* C18: when the evaluators of a test case are executed, every schema file
\* validateJson or addJsonSchema reads is the given schema path resolved
\* against the schema root path in force at that moment (the given path
\* itself when the root path is empty).
C18_SchemaRootAtExecution ==
  [][\A i \in 1 .. Len(sent) :
       onResponseEnd(i) =>
         \A k \in 1 .. Len(sent'[i].files) :
           sent'[i].files[k] \in
             {IF config.rootSchemaPath # EmptyPath
              THEN PathResolve(config.rootSchemaPath, p) ELSE p :
                p \in SchemaPaths}]_vars

\* The Content-Length header of option set o in the option sets opts over the
\* heap hp.
ContentLengthIn(opts, hp, o) == hp.headers[opts[o]._headers]["Content-Length"]

\* C19: every call of withPayload, withFormEncodedPayload or withJsonPayload
\* stores the bytes of the payload given and sets Content-Length to their
\* number, whatever both were before; so Content-Length, unless set with
\* withHeader since, is the byte length of the current payload.
C19_ContentLength ==
  /\ [](\A o \in Objects :
          LET length == ContentLengthIn(options, heap, o)
          IN  /\ length.type = "number" =>
                   /\ ~options[o]._payload.null
                   /\ length.n = Len(options[o]._payload.bytes)
              /\ length = JsUndefined => options[o]._payload.null)
  /\ [][\A o \in Objects :
          LET stored == options'[o]._payload
              length == ContentLengthIn(options', heap', o)
              Set(bytes) == /\ stored = Buffer(bytes)
                            /\ length = JsNumber(Len(bytes))
          IN  /\ stored # options[o]._payload =>
                   length = JsNumber(Len(stored.bytes))
              /\ \A s \in PayloadStrings :
                   withPayload(o, StringPayload(s)) => Set(Utf8(s))
              /\ \A b \in PayloadBuffers :
                   withPayload(o, BufferPayload(b)) => Set(b)
              /\ \A obj \in PayloadObjects :
                   /\ withFormEncodedPayload(o, obj) => Set(Utf8(FormEncode(obj)))
                   /\ withJsonPayload(o, obj) => Set(Utf8(JsonStringify(obj)))]_vars

\* The payload is {"k":"x\"e","b":""} with an acute accent on the e, 19
\* characters and 20 bytes, set by withJsonPayload, and Content-Length is 20.
C19_Witness ==
  /\ Len(options) = 1
  /\ options[1]._payload =
       Buffer(<<123, 34, 107, 34, 58, 34, 120, 92, 34, 195, 169, 34, 44,
                34, 98, 34, 58, 34, 34, 125>>)
  /\ ContentLengthIn(options, heap, 1) = JsNumber(20)
  /\ HeadersOf(1)["Content-Type"] = JsString("application/json")
  /\ HeadersOf(1)["Test-Header"] # JsUndefined

\* Test case 1 has no evaluator, no continuation and no timeout.
Plain ==
  /\ tc[1].evaluators = <<>> /\ tc[1].chained = <<>>
  /\ tc[1].timeoutMs = 0

\* C20: a test case without evaluators and continuations calls nothing but
\* done() on the asserter unless its request meets a network error: when its
\* response has ended, whatever the status code and the body, the asserter has
\* received one done() and no failure; any failure it receives is the failure
\* of the request.
C20_PlainCasePasses ==
  Plain =>
    /\ \A x \in 1 .. Len(trace) :
         \/ trace[x].ev = "done"
         \/ /\ trace[x].ev = "fail"
            /\ tc[1].error # ""
            /\ trace[x].arg = RequestFailed(tc[1].url, tc[1].error)
    /\ Len(DoneCalls) <= 1
    /\ AtRest /\ tc[1].req = "ended" /\ tc[1].error = "" =>
         /\ Len(trace) = 1
         /\ trace[1].ev = "done" /\ trace[1].tc = 1

\* A response with status 500 and a body has ended for such a test case, and
\* the asserter has received done() alone.
C20_Witness ==
  /\ Plain /\ AtRest
  /\ tc[1].req = "ended" /\ tc[1].error = ""
  /\ tc[1].statusCode = 500 /\ tc[1].body # <<>>
  /\ Len(trace) = 1 /\ trace[1].ev = "done"

\* C21: the function toNodeUnitFn returns is a faithful wrapper. It mirrors
\* every public builder under its own key, every mirrored method returns the
\* function itself, a mirrored call is one step of the same call made on the
\* underlying test case, and fn(test) binds the asserter and sends exactly one
\* request, the one a direct run() of the test case would send.
C21_FaithfulWrapper ==
  /\ [](\A w \in Fns, k \in PublicKeys :
          \E m \in heap.fns[w].methods :
            /\ m.key = k /\ m.apply = k /\ m.returns = w
            /\ m.on = heap.fns[w].testCase
            /\ \A n \in heap.fns[w].methods : n.key = k => n = m)
  /\ [][\A w \in Fns :
          LET o == heap.fns[w].testCase
          IN  /\ \A k \in PublicKeys : \A args \in Arguments(k) :
                   fnMethod(w, k, args[1], args[2], AdapterBounds)
                     => Method(o, k, args[1], args[2], AdapterBounds)
              /\ fnTest(w, AdapterBounds)
                   => /\ options'[o]._asserter
                      /\ sent' = Append(sent, RequestOf(o))
                      /\ SettingsIn(options', heap', o)
                           = SettingsIn(options, heap, o)]_vars

\* A test case held only as its function has been given a header, a cookie,
\* a method and an evaluator through the mirrored methods, and
\* fn(test) has sent its request.
C21_Witness ==
  \E w \in Fns :
    LET o == heap.fns[w].testCase
    IN  /\ HeadersOf(o)["Test-Header"] = JsString("1234")
        /\ CookiesOf(o) = <<[name |-> "a", value |-> JsString("1")]>>
        /\ options[o]._httpMethod = ToUpperCase(PUT)
        /\ EvaluatorsOf(o) = <<UserEvaluator>>
        /\ options[o]._asserter
        /\ \E i \in 1 .. Len(sent) :
             sent[i].object = o /\ sent[i].headers["Cookie"] = JsString("a=1")

\* The calls the evaluators made on the asserter in the step that ended a
\* response, and those of them the x-th evaluator made.
NewCalls == SubSeq(trace', Len(trace) + 1, Len(trace'))

CallsBy(calls, x) ==
  LET mine == SelectSeq(calls, LAMBDA e : e.by = x)
  IN  [c \in 1 .. Len(mine) |-> mine[c].call]

\* C22: with expectXssiPrefix(p) registered, before or after validateJson:
\* on a body that is p followed by valid JSON the prefix check passes; on an
\* empty body expectXssiPrefix records exactly one failure; and validateJson
\* does with the body what it does, without a prefix configured, with the
\* body less its first |p| characters.
C22_XssiPrefixStripped ==
  [][\A i \in 1 .. Len(sent), data \in Bodies :
       handleHttpResponseEnd(i, data) =>
         LET o == sent[i].object
             es == EvaluatorsOf(o)
         IN  \A x \in 1 .. Len(es) :
               es[x].fn = "expectXssiPrefix" =>
                 LET p == es[x].arg
                     rest == SubstrFrom(data, Len(p))
                 IN  /\ data = <<>> =>
                          /\ Len(CallsBy(NewCalls, x)) = 1
                          /\ CallsBy(NewCalls, x)[1].op = "fail"
                     /\ (data = p \o rest /\ JsonParse(rest).ok) =>
                          /\ Len(CallsBy(NewCalls, x)) = 1
                          /\ CallsBy(NewCalls, x)[1].op = "equals"
                          /\ CallsBy(NewCalls, x)[1].passes
                     /\ \A j \in 1 .. Len(es) :
                          (es[j].fn = "validateJson" /\ rest # <<>>) =>
                            CallsBy(NewCalls, j)
                              = validateJsonEvaluator(<<>>, es[j].arg,
                                                      [body |-> rest])]_vars

\* validateJson registered before expectXssiPrefix: the body ")]}{"a":1}" has
\* passed the prefix check and the validation against schema.json.
C22_Witness ==
  \E o \in Objects :
    /\ Len(EvaluatorsOf(o)) = 2
    /\ EvaluatorsOf(o)[1].fn = "validateJson"
    /\ EvaluatorsOf(o)[1].arg = Path(FALSE, <<"schema.json">>)
    /\ EvaluatorsOf(o)[2].fn = "expectXssiPrefix"
    /\ Len(trace) = 2
    /\ trace[1].ev = "equals" /\ trace[1].by = 2 /\ trace[1].call.passes
    /\ trace[2].ev = "done"
    /\ trace[2].body = ShortPrefix \o <<123, 34, 97, 34, 58, 49, 125>>

\* C23: one execution of a validateJson evaluator calls the asserter at most
\* once, with a failure; it does so exactly once when the schema file cannot
\* be read or parsed, a pattern does not compile, the body is missing or is
\* not JSON, or the validator reports violations, however many; and every
\* evaluator registered after it makes the calls it makes on its own.
C23_ValidateJsonOneFailure ==
  [][\A i \in 1 .. Len(sent), data \in Bodies :
       handleHttpResponseEnd(i, data) =>
         LET o == sent[i].object
             es == EvaluatorsOf(o)
             res == [body |-> data]
         IN  \A j \in 1 .. Len(es) :
               es[j].fn = "validateJson" =>
                 LET calls == CallsBy(NewCalls, j)
                     file == Disk(es[j].arg)
                     fixed == _fixSchema(file.json.value, FALSE)
                     json == JsonParse(StrippedBody(options[o]._xssiPrefix, res))
                 IN  /\ Len(calls) <= 1
                     /\ \A c \in 1 .. Len(calls) : calls[c].op = "fail"
                     /\ (\/ ~file.readable \/ ~file.json.ok \/ ~fixed.ok
                         \/ data = <<>> \/ ~json.ok
                         \/ Validate(json.value, fixed.schema, "") # <<>>)
                          => Len(calls) = 1
                     /\ \A x \in j + 1 .. Len(es) :
                          CallsBy(NewCalls, x)
                            = Evaluate(es[x], o, SchemaOf(o), res).calls]_vars

\* validateJson('strict.json') has met the body ")]}{}", which violates the
\* schema twice once the prefix is off, and recorded one failure listing both
\* violations; the expectXssiPrefix registered after it has run.
C23_Witness ==
  /\ Len(trace) = 3
  /\ trace[1].ev = "fail" /\ trace[1].by = 1
  /\ Len(trace[1].call.errors) = 2
  /\ trace[2].ev = "equals" /\ trace[2].by = 2 /\ trace[2].call.passes
  /\ trace[3].ev = "done" /\ trace[3].body = ShortPrefix \o <<123, 125>>

\* C24: withCookie overwrites or inserts. A call leaves the cookie map with
\* the value given under the name given and every other name as it was; the
\* map never holds a name twice; and without a Cookie header set, the Cookie
\* header of getHeaders() is the pairs name=value of the map, each value as a
\* string, joined by '; ' (no header while there is no cookie).
C24_CookieOverwriteOrInsert ==
  /\ [](\A o \in Objects :
          LET ck == CookiesOf(o)
              pair(i) == ck[i].name \o "=" \o StringOf(ck[i].value)
          IN  /\ \A i, j \in 1 .. Len(ck) : ck[i].name = ck[j].name => i = j
              /\ Len(ck) <= 2
              /\ HeadersOf(o)["Cookie"] = JsUndefined =>
                   getHeaders(o)["Cookie"] =
                     CASE Len(ck) = 0 -> JsUndefined
                       [] Len(ck) = 1 -> JsString(pair(1))
                       [] Len(ck) = 2 -> JsString(pair(1) \o "; " \o pair(2)))
  /\ [][\A o \in Objects, name \in CookieNames, value \in CookieValues :
          withCookie(o, name, value) =>
            LET before == CookiesOf(o)
                after == heap'.cookies[options[o]._cookies]
            IN  /\ \E i \in 1 .. Len(after) :
                     after[i] = [name |-> name, value |-> value]
                /\ \A i \in 1 .. Len(before) :
                     before[i].name # name =>
                       \E j \in 1 .. Len(after) : after[j] = before[i]
                /\ {after[i].name : i \in 1 .. Len(after)}
                     = {before[i].name : i \in 1 .. Len(before)} \cup {name}]_vars

\* The cookie a was set to a string and then to the number 20, the cookie b
\* to a string: the Cookie header is 'a=20; b=1'.
C24_Witness ==
  \E o \in Objects :
    /\ CookiesOf(o) = <<[name |-> "a", value |-> JsNumber(20)],
                        [name |-> "b", value |-> JsString("1")]>>
    /\ HeadersOf(o)["Cookie"] = JsUndefined
    /\ getHeaders(o)["Cookie"] = JsString("a=20; b=1")

\* C25: within one run the steps of the finalization are ordered. The dump of
\* a test case that dumps comes before its first evaluator, every evaluator
\* of a test case comes before its first continuation, and once done() has
\* been signaled nothing of the run happens any more: no dump, no evaluator,
\* no continuation, no promise of a continuation settling.
C25_FinalizationOrder ==
  /\ \A c \in 1 .. ncases :
       LET evs == {x \in 1 .. Len(trace) :
                     trace[x].ev = "evaluator" /\ trace[x].tc = c}
           dumps == {x \in 1 .. Len(trace) :
                       trace[x].ev = "dump" /\ trace[x].tc = c}
           thens == {x \in 1 .. Len(trace) :
                       trace[x].ev = "then" /\ trace[x].tc = c}
       IN  /\ \A d \in dumps, e \in evs \cup thens : d < e
           /\ (tc[c].dump /\ evs \cup thens # {} /\ tc[c].req = "ended")
                => dumps # {}
           /\ \A e \in evs, t \in thens : e < t
  /\ \A x, y \in 1 .. Len(trace) :
       (x < y /\ trace[x].ev = "done")
         => trace[y].ev \notin {"dump", "evaluator", "then", "settled"}

\* The same for runs without network error and without timeout.
FinalizationOrderOfPlainRuns ==
  (NoRequestError /\ \A c \in 1 .. ncases : ~tc[c].timedOut)
     => C25_FinalizationOrder

\* C26: no evaluator and no continuation of a test case runs before its
\* response has ended; from the response callback on, what the test case
\* holds of the body starts empty and grows by each chunk at its end; the
\* body an evaluator sees is all of it, and when it is empty the response has
\* no body and a body-matching evaluator tests the empty string.
C26_BodyAtEnd ==
  /\ [](\A x \in 1 .. Len(trace) :
          trace[x].ev \in {"evaluator", "then"} =>
            LET c == trace[x].tc
            IN  /\ tc[c].req = "ended"
                /\ trace[x].ev = "evaluator" =>
                     /\ trace[x].body = tc[c].data
                     /\ trace[x].text = tc[c].data)
  /\ [][\A c \in 1 .. ncases :
          \/ tc'[c].data = tc[c].data
          \/ /\ tc[c].req = "sent" /\ tc'[c].req = "receiving"
             /\ tc'[c].data = <<>>
          \/ /\ tc[c].req = "receiving" /\ tc'[c].req = "receiving"
             /\ \E d \in BodyChunks : tc'[c].data = tc[c].data \o d]_vars

\* The chunks 'a' and 'b' came in this order, the evaluator has seen the body
\* 'ab' and a continuation has been called.
C26_Witness ==
  \E x \in 1 .. Len(trace) :
    /\ trace[x].ev = "evaluator" /\ trace[x].tc = 1
    /\ trace[x].body = <<"a", "b">>
    /\ trace[x].text = <<"a", "b">>
    /\ \E y \in 1 .. Len(trace) : trace[y].ev = "then" /\ trace[y].tc = 1

\* C27: the configuration of a run is the one the option set has when the
\* request is sent. The request run() sends carries the method and the
\* headers set by then, and the evaluators _finalize calls when the response
\* ends are the ones registered when the request was sent: one registered
\* while the request is in flight is not called.
C27_ConfigurationAtSend ==
  [][/\ \A o \in Objects :
          run(o, SendRequests, 0) =>
            LET request == sent'[Len(sent')]
            IN  /\ request.object = o
                /\ request.method = Settings(o).method
                /\ request.headers["Test-Header"]
                     = Settings(o).headers["Test-Header"]
                /\ request.evaluators = Settings(o).evaluators
     /\ \A i \in 1 .. Len(sent) :
          handleHttpResponseEnd(i, <<>>) =>
            trace'[Len(trace')].ran = sent[i].evaluators]_vars

\* The part of it about the request alone.
RequestAsConfigured ==
  [][\A o \in Objects :
       run(o, SendRequests, 0) =>
         LET request == sent'[Len(sent')]
         IN  /\ request.object = o
             /\ request.method = Settings(o).method
             /\ request.headers["Test-Header"]
                  = Settings(o).headers["Test-Header"]]_vars

\* The errors evaluators and continuations have thrown.
Throws ==
  UNION {{ThrownByEvaluator(c, EvalEvents(c)[x].id) :
            x \in {y \in 1 .. Len(EvalEvents(c)) : EvalEvents(c)[y].out = "throw"}}
         \cup {Thrown(c, ThenEvents(c)[x].id) :
            x \in {y \in 1 .. Len(ThenEvents(c)) : ThenEvents(c)[y].out = "throw"}}
         : c \in 1 .. ncases}

\* C28: what an evaluator or a continuation throws never reaches the caller
\* of the engine, the one error raised to it being 'Missing asserter'; once
\* the run is at rest the thrown error has been recorded with test.fail and
\* done() has been called.
C28_ThrowsBecomeFailures ==
  /\ \A x \in 1 .. Len(raised) : raised[x] = "Missing asserter"
  /\ AtRest =>
       \A err \in Throws :
         /\ \E x \in 1 .. Len(FailCalls) : FailCalls[x].arg = err
         /\ tc[1].done = "called"

\* The same, for runs that return no callable adapter from a continuation,
\* have no timeout and no request error.
ThrowsBecomeFailuresOfInstances ==
  (/\ NoRequestError
   /\ \A c \in 1 .. ncases : ~tc[c].timedOut
   /\ \A c \in 1 .. ncases : \A x \in 1 .. Len(ThenEvents(c)) :
        ThenEvents(c)[x].out # "fn")
    => C28_ThrowsBecomeFailures

\* The schemata of a schema file: the array it holds, or the one schema.
SchemataOf(file) ==
  IF ~file.readable \/ ~file.json.ok THEN <<>>
  ELSE IF file.json.value.t = "array"
  THEN [k \in 1 .. Len(file.json.value.members) |->
          file.json.value.members[k].value]
  ELSE <<file.json.value>>

DeclaresId(schema) == ~JsonFalsy(Get(schema, "id"))

RECURSIVE NormalizedAs(_, _, _)
NormalizedAs(orig, fixed, map) ==
  LET adds == ~map /\ Get(orig, "required").t # "undefined"
                   /\ Get(orig, "optional").t = "undefined"
  IN  /\ fixed.t = orig.t
      /\ Len(fixed.members) = Len(orig.members) + (IF adds THEN 1 ELSE 0)
      /\ (~map /\ Get(orig, "required").t # "undefined") =>
           Get(fixed, "optional") = JsonBoolean(JsonFalsy(Get(orig, "required")))
      /\ \A i \in 1 .. Len(orig.members) :
           LET key == orig.members[i].key
               was == orig.members[i].value
               is == fixed.members[i].value
           IN  /\ fixed.members[i].key = key
               /\ CASE ~map /\ key = "pattern" -> is = RegExp(Source(was))
                    [] ~map /\ key = "required" -> is = was
                    [] ~map /\ key = "optional"
                         /\ Get(orig, "required").t # "undefined" -> TRUE
                    [] IsObject(was) ->
                         NormalizedAs(was, is, ~map /\ key = "properties")
                    [] OTHER -> is = was

\* The schemata of the files of the disk.
SchemataOnDisk ==
  UNION {{SchemataOf(Disk(p))[k] : k \in 1 .. Len(SchemataOf(Disk(p)))} :
           p \in SchemaFiles}

\* C30: every schema registered in namedSchemas is the normalized form of a
\* schema of a file: at each schema level pattern is compiled and required: b
\* has added optional: !b; the keys of a properties map are left as they are,
\* a property named pattern or required keeping its schema, and the schemas
\* those keys map to are normalized as schema levels.
C30_KeywordsWhereKeywords ==
  \A o \in Objects : \A e \in SchemaOf(o) :
    \E orig \in SchemataOnDisk :
      /\ Get(orig, "id").s = e.id
      /\ NormalizedAs(orig, e.schema, FALSE)

\* keys.json is registered: its own pattern is compiled, its properties
\* named pattern and required still map to schemas, and the pattern inside
\* the first and the required inside the second have been rewritten.
C30_Witness ==
  \E o \in Objects : \E e \in SchemaOf(o) :
    LET properties == Get(e.schema, "properties")
    IN  /\ e.id = "keys"
        /\ Get(e.schema, "pattern") = RegExp("^k")
        /\ Get(e.schema, "optional") = JsonBoolean(FALSE)
        /\ Len(properties.members) = 2
        /\ Get(properties, "pattern").t = "object"
        /\ Get(Get(properties, "pattern"), "pattern") = RegExp("^p")
        /\ Get(Get(properties, "pattern"), "optional") = JsonBoolean(TRUE)
        /\ Get(properties, "required").t = "object"
        /\ Get(Get(properties, "required"), "optional") = JsonBoolean(FALSE)
        /\ Get(Get(Get(Get(properties, "required"), "properties"), "a"), "pattern")
             = RegExp("^a")

\* The header map, the cookie map, the evaluator array and namedSchemas of
\* option set o are objects of its own: p holds none of them.
SharesNothing(o, p) ==
  /\ options[o]._headers # options[p]._headers
  /\ options[o]._cookies # options[p]._cookies
  /\ options[o]._evaluators # options[p]._evaluators
  /\ options[o]._jsonSchema # options[p]._jsonSchema

\* A test case shares no object with another option set, and the run of a
\* test case leaves namedSchemas of every other option set as it was.
NoSharedStateOfConstructed ==
  /\ [](\A o \in Objects : \A p \in Objects \ {o} :
          options[o].kind = "TestCase" => SharesNothing(o, p))
  /\ [][\A i \in 1 .. Len(sent) :
          handleHttpResponseEnd(i, <<>>) =>
            \A p \in Objects \ {sent[i].object} :
              heap'.schema[options[p]._jsonSchema] = SchemaOf(p)]_vars

CopySharesNamedSchemas ==
  [][\A t \in Objects :
       clone(t, ShareObjects) =>
         options'[Len(options')]._jsonSchema = options[t]._jsonSchema]_vars

\* C32: no Cookie header having been set with withHeader, the Cookie header
\* of getHeaders() on an option set, a copy made from a template included, is
\* the pairs of its cookie map as they are now: a cookie added or overwritten
\* on the copy is in it, whatever cookies the source had.
C32_CopyCookieHeader ==
  \A o \in Objects :
    getHeaders(o)["Cookie"] =
      IF Len(CookiesOf(o)) > 0 THEN JsString(JoinCookies(CookiesOf(o)))
      ELSE JsUndefined

\* The same for the option sets no copy was made into: those whose header map
\* holds no Cookie header.
CookieHeaderOfOwnCookies ==
  \A o \in Objects :
    HeadersOf(o)["Cookie"] = JsUndefined =>
      getHeaders(o)["Cookie"] =
        IF Len(CookiesOf(o)) > 0 THEN JsString(JoinCookies(CookiesOf(o)))
        ELSE JsUndefined

SameEvaluator(a, b) == a.fn = b.fn /\ a.arg = b.arg

\* The evaluator array of o after the step is the one before it with one
\* evaluator of function f at its end.
AppendsOne(o, f) ==
  LET before == EvaluatorsOf(o)
      after == heap'.evaluators[options[o]._evaluators]
  IN  /\ Len(after) = Len(before) + 1
      /\ \A x \in 1 .. Len(before) : SameEvaluator(after[x], before[x])
      /\ after[Len(after)].fn = f

KeepsEvaluators(o) ==
  LET before == EvaluatorsOf(o)
      after == heap'.evaluators[options[o]._evaluators]
  IN  /\ Len(after) = Len(before)
      /\ \A x \in 1 .. Len(before) : SameEvaluator(after[x], before[x])

\* C33: the evaluator array only grows at its end. evaluate, expectStatusCode,
\* expectXssiPrefix, validateJson and addJsonSchema each add one evaluator
\* after those registered, which stay as they are and where they are; every
\* other builder call, and every call on another option set, leaves the array
\* as it is. A second expectStatusCode is a second check.
C33_EvaluatorsAppendOnly ==
  [][\A o \in Objects :
       /\ pushEvaluator(o, UserEvaluator, AppendEvals) => AppendsOne(o, "evaluator")
       /\ \A statusCode \in ExpectedCodes :
            expectStatusCode(o, statusCode, AppendEvals) =>
              /\ AppendsOne(o, "expectStatusCode")
              /\ heap'.evaluators[options[o]._evaluators][Len(EvaluatorsOf(o)) + 1].arg
                   = statusCode
       /\ expectXssiPrefix(o, XssiPrefix, AppendEvals) =>
            AppendsOne(o, "expectXssiPrefix")
       /\ \A f \in {"validateJson", "addJsonSchema"} :
            schemaEvaluator(o, f, Path(FALSE, <<"schema.json">>), AppendEvals) =>
              AppendsOne(o, f)
       /\ (\/ withHeader(o, "Test-Header", JsString("1234"))
           \/ withMethod(o, PUT)) => KeepsEvaluators(o)
       /\ KeepsEvaluators(o) \/ \E f \in {"evaluator", "expectStatusCode",
                                          "expectXssiPrefix", "validateJson",
                                          "addJsonSchema"} : AppendsOne(o, f)]_vars

\* expectStatusCode(200), then expectStatusCode(404) on the same test case:
\* both checks are registered, the first where it was.
C33_Witness ==
  \E o \in Objects :
    /\ Len(EvaluatorsOf(o)) = 2
    /\ EvaluatorsOf(o)[1] = [fn |-> "expectStatusCode", arg |-> 200]
    /\ EvaluatorsOf(o)[2] = [fn |-> "expectStatusCode", arg |-> 404]

\* C34: a run leaves the option set as it is. run() sends the headers of a
\* map of its own, with Content-Length: 0 when there is no payload and no
\* Content-Length header, and neither run() nor the end of the response
\* changes the headers, cookies, payload, method or evaluators of any option
\* set.
C34_RunKeepsOptionSet ==
  [][/\ \A o \in Objects :
          run(o, SendRequests, 0) =>
            /\ \A p \in Objects : SettingsIn(options', heap', p) = Settings(p)
            /\ (sent' # sent /\ options[o]._payload.null
                  /\ Falsy(HeadersOf(o)["Content-Length"])) =>
                 sent'[Len(sent')].headers["Content-Length"] = JsNumber(0)
     /\ \A i \in 1 .. Len(sent) :
          handleHttpResponseEnd(i, <<>>) =>
            \A p \in Objects : SettingsIn(options', heap', p) = Settings(p)]_vars

\* A test case with a header, a cookie and an evaluator and no payload has
\* been run to the end of its response: the request carried Content-Length: 0
\* and the Cookie header, and the header map of the test case has neither.
C34_Witness ==
  \E i \in 1 .. Len(sent) :
    LET o == sent[i].object IN
      /\ sent[i].ended
      /\ sent[i].headers["Content-Length"] = JsNumber(0)
      /\ sent[i].headers["Cookie"] = JsString("username=dan")
      /\ HeadersOf(o)["Content-Length"] = JsUndefined
      /\ HeadersOf(o)["Cookie"] = JsUndefined
      /\ HeadersOf(o)["Test-Header"] = JsString("1234")
      /\ Len(EvaluatorsOf(o)) = 1
      /\ trace[Len(trace)].ran = EvaluatorsOf(o)

\* C35: done() is the last call a run makes on the asserter: after it no
\* evaluator records a failed assertion, and neither test.fail nor test.done
\* is called, also when done() was signaled by the timeout while the request
\* or a continuation was still out.
C35_NothingAfterDone ==
  \A x \in 1 .. Len(AsserterCalls) :
    AsserterCalls[x].ev = "done" => x = Len(AsserterCalls)

\* The same for runs without timeout and without request error.
NothingAfterDoneOfPlainRuns ==
  (NoRequestError /\ \A c \in 1 .. ncases : ~tc[c].timedOut)
    => C35_NothingAfterDone

\* The failures the run on asserter x has recorded, in order.
FailuresOn(x) ==
  LET mine == SelectSeq(trace, LAMBDA e : e.on = x /\ e.ev \in {"fail", "assert"})
  IN  [e \in 1 .. Len(mine) |-> mine[e].error]

\* C36: the errors the completion callback of an Asserter is handed are the
\* failures of the run, those recorded with fail() and those of the failing
\* assertions, each of them: a fail() does not keep the failures of the
\* evaluators after it out of the list.
C36_AllFailuresCollected ==
  \A x \in AsserterObjects :
    adapter[x]._callback # <<>> => adapter[x]._callback[1] = FailuresOn(x)

\* The same for the runs that record no failure with fail().
AllFailuresCollectedWithoutFail ==
  \A x \in AsserterObjects :
    (\A e \in 1 .. Len(trace) : trace[e].on = x => trace[e].ev # "fail")
      => (adapter[x]._callback # <<>> => adapter[x]._callback[1] = FailuresOn(x))

Starts == SelectSeq(trace, LAMBDA e : e.ev = "start")
Summaries == SelectSeq(trace, LAMBDA e : e.ev = "summary")

\* C37: with the serial flag the tests are started in the order they were
\* discovered, each one when the callback of the asserter of the one before
\* it has been invoked; the summary is printed once, when every test has been
\* started and the callback of each has been invoked, and it reports failures
\* exactly when one of the callbacks was handed a list of errors that is not
\* empty.
C37_SerialRunner ==
  /\ \A n \in 1 .. Len(Starts) : Starts[n].on = n
  /\ \A x \in AsserterObjects : x < Len(adapter) => TestResolved(x)
  /\ Len(Summaries) <= 1
  /\ Len(Summaries) = 1 =>
       /\ Len(adapter) = RunnerTests
       /\ \A x \in AsserterObjects : TestResolved(x)
       /\ Summaries[1].error = "FINISHED WITH FAILURES"
            <=> \E x \in AsserterObjects : adapter[x]._callback[1] # <<>>

\* Two tests have run one after the other, the first with a failed assertion
\* and the second with none, and the summary reports failures.
C37_Witness ==
  /\ Len(adapter) = 2
  /\ adapter[1]._callback = <<<<AssertionError>>>>
  /\ adapter[2]._callback = <<<<>>>>
  /\ Len(Summaries) = 1
  /\ Summaries[1].error = "FINISHED WITH FAILURES"
  /\ trace[Len(trace)].ev = "summary"
====
